---- MODULE Spec2Model ----
(***************************************************************************)
(* A model of the worldlines ECS core: the generational entity allocator   *)
(* (Entities), the archetype tables (Table / Column / SparseMap), the      *)
(* structural operations of EntityWorld and World, and query iteration.    *)
(*                                                                         *)
(* Conventions                                                             *)
(*  - Rust vectors are TLA+ sequences: Rust index i is element i + 1.      *)
(*  - Option<EntityId> uses the NonZeroU32 niche: version 0 is None.       *)
(*  - Option<EntityAddr> is a record with a `some` flag.                   *)
(*  - A panic (index out of bounds, arithmetic overflow in a checked       *)
(*    build) sets entities.panic and stops the program.                    *)
(***************************************************************************)
EXTENDS Integers, Sequences, FiniteSets, TLC

VARIABLES
    entities,   \* World.entities : Entities {slots, cursor, pending, allocated, reserved}
    tables,     \* World.components : the Vec<Table> of the table registry
    thr,        \* the callers that hold a shared &Entities and run reserve()
    iter,       \* the QueryIter in progress (or none) and what it has yielded
    live,       \* history: ids handed out and not freed or cleared since
    freed,      \* history: ids that were freed or cleared at some time
    written,    \* history: number of component values written so far
    dropped,    \* history: how often the drop function ran on each value
    owner,      \* history: the entity each value was written for, while stored
    clears,     \* history: number of World::clear calls so far
    world_access, \* the WorldAccess under construction
    declared,   \* history: the accesses passed to WorldAccess::add, in order
    storage,    \* the tables of the entity-keyed Components
    command_buffer, \* a Commands buffer, with the history of its pushes and calls
    resource_cells,  \* World.resources and the guards handed out, with the last result
    registry,  \* Components: the bundle and type-set maps with the tables they name
    node,  \* a SystemNode, with the outcome of the last call to run it
    component_sets  \* ComponentSets built by insert, remove and intersection, with the last call

vars == <<entities, tables, thr, iter, live, freed, written, dropped, owner, clears,
          world_access, declared, storage, command_buffer, resource_cells,
          registry,
          node,
          component_sets>>

(***************************************************************************)
(* Bounds of the model.                                                    *)
(***************************************************************************)
MaxSlots == 2
MaxVersion == 3
MaxValues == 3
MaxRows == 2
MaxClears == 1
MaxDrops == 2
NumThreads == 2
NumComponents == 1
NumInfos == 2
MaxAccesses == 3
NumTypes == 3
MaxTables == 3
MaxCommands == 3
NumCommandTypes == 2
NumCaptured == 2
NumResources == 2
MaxBorrows == 3
HighBit == 4
NumRegistryTypes == 2
MaxInputs == 2
NumConditions == 2
MaxConditions == 2
NumSetComponents == 3
NumSets == 3

Threads == 1..NumThreads
ComponentIds == 1..NumComponents

Min(a, b) == IF a < b THEN a ELSE b
Max(a, b) == IF a > b THEN a ELSE b

(***************************************************************************)
(* Access model (access.rs).  A Level is "Read" or "Write", an             *)
(* Option<Level> may also be "None"; the derived order is                  *)
(* None < Some(Read) < Some(Write).  An Access is a kind with, for the     *)
(* Component and Resource kinds, the info and the required flag (info 0    *)
(* and required TRUE stand in for the kinds without fields).               *)
(***************************************************************************)
Levels == {"Read", "Write"}

Infos == 1..NumInfos

Level_max(lhs, rhs) ==
    IF lhs = "Write" \/ rhs = "Write" THEN "Write"
    ELSE IF lhs = "Read" \/ rhs = "Read" THEN "Read"
    ELSE "None"

Access_world(level) ==
    [kind |-> "World", info |-> 0, required |-> TRUE, level |-> level]

Access_all_entities(level) ==
    [kind |-> "AllEntities", info |-> 0, required |-> TRUE, level |-> level]

Access_component(info, level) ==
    [kind |-> "Component", info |-> info, required |-> FALSE, level |-> level]

Access_required_component(info, level) ==
    [kind |-> "Component", info |-> info, required |-> TRUE, level |-> level]

Access_resource(info, level) ==
    [kind |-> "Resource", info |-> info, required |-> FALSE, level |-> level]

Access_required_resource(info, level) ==
    [kind |-> "Resource", info |-> info, required |-> TRUE, level |-> level]

Accesses ==
    {Access_world(l) : l \in Levels}
        \cup {Access_all_entities(l) : l \in Levels}
        \cup {Access_component(i, l) : i \in Infos, l \in Levels}
        \cup {Access_required_component(i, l) : i \in Infos, l \in Levels}
        \cup {Access_resource(i, l) : i \in Infos, l \in Levels}
        \cup {Access_required_resource(i, l) : i \in Infos, l \in Levels}

\* AccessKind::disjoint_with: the match arms in their order; the required
\* flag is ignored by the `..` patterns.
AccessKind_disjoint_with(self, other) ==
    IF self.kind = "Component" /\ other.kind = "Component"
        THEN self.info # other.info
    ELSE IF self.kind = "Resource" /\ other.kind = "Resource"
        THEN self.info # other.info
    ELSE IF \/ (self.kind = "AllEntities" /\ other.kind = "Resource")
            \/ (self.kind = "Resource" /\ other.kind = "AllEntities")
        THEN TRUE
    ELSE FALSE

Access_conflicts_with(self, other) ==
    /\ (self.level = "Write" \/ other.level = "Write")
    /\ ~AccessKind_disjoint_with(self, other)

\* SparseSet<I>: one optional item per sparse index; insert replaces the
\* item stored at the index of the new one.
NoItem == [some |-> FALSE, info |-> 0, required |-> FALSE, level |-> "None"]

SparseSet_new == [i \in Infos |-> NoItem]

SparseSet_insert(set, item) ==
    [set EXCEPT ![item.info] =
        [some |-> TRUE, info |-> item.info, required |-> item.required,
         level |-> item.level]]

RECURSIVE SparseSet_iter(_, _, _)
SparseSet_iter(set, kind, from) ==
    IF from > NumInfos THEN <<>>
    ELSE (IF set[from].some
              THEN <<[kind |-> kind, info |-> set[from].info,
                      required |-> set[from].required,
                      level |-> set[from].level]>>
              ELSE <<>>) \o SparseSet_iter(set, kind, from + 1)

NoError == [some |-> FALSE, lhs |-> Access_world("Read"), rhs |-> Access_world("Read")]

AccessError(lhs, rhs) == [some |-> TRUE, lhs |-> lhs, rhs |-> rhs]

WorldAccess_new ==
    [level |-> "None", world |-> "None", all_entities |-> "None",
     components |-> SparseSet_new, resources |-> SparseSet_new,
     error |-> NoError]

WorldAccess_level(self) == self.level

\* Ok is the record without an error, Err(e) the latched error.
WorldAccess_result(self) == self.error

WorldAccess_accesses(self) ==
    (IF self.world # "None" THEN <<Access_world(self.world)>> ELSE <<>>)
        \o (IF self.all_entities # "None"
                THEN <<Access_all_entities(self.all_entities)>> ELSE <<>>)
        \o SparseSet_iter(self.components, "Component", 1)
        \o SparseSet_iter(self.resources, "Resource", 1)

WorldAccess_matches(self, components) ==
    LET accesses == WorldAccess_accesses(self)
    IN  \A i \in 1..Len(accesses) :
            ~(/\ accesses[i].kind = "Component"
              /\ accesses[i].required
              /\ accesses[i].info \notin components)

\* the first existing access, in the order of accesses(), that the new one
\* conflicts with
FirstConflict(self, access) ==
    LET accesses == WorldAccess_accesses(self)
        hits == {i \in 1..Len(accesses) :
                    Access_conflicts_with(access, accesses[i])}
    IN  IF hits = {} THEN NoError
        ELSE AccessError(access,
                         accesses[CHOOSE i \in hits : \A j \in hits : i <= j])

WorldAccess_record(self, access) ==
    IF access.kind = "World" THEN [self EXCEPT !.world = access.level]
    ELSE IF access.kind = "AllEntities"
        THEN [self EXCEPT !.all_entities = access.level]
    ELSE IF access.kind = "Component"
        THEN [self EXCEPT !.components = SparseSet_insert(@, access)]
    ELSE [self EXCEPT !.resources = SparseSet_insert(@, access)]

\* add without the early return on a latched error
WorldAccess_add_unlatched(self, access) ==
    WorldAccess_record(
        [self EXCEPT !.level = Level_max(@, access.level),
                     !.error = FirstConflict(self, access)],
        access)

WorldAccess_add(self, access) ==
    IF self.error.some THEN self
    ELSE WorldAccess_record(
             [self EXCEPT !.level = Level_max(@, access.level),
                          !.error = FirstConflict(self, access)],
             access)

\* QueryData::access of the query data atoms: the kind of data with, for
\* the component references, the component.  EntityId declares nothing and
\* is left out.
QueryDatas ==
    {[data |-> d, info |-> i] :
        d \in {"&C", "&mut C", "Option<&C>", "Option<&mut C>"}, i \in Infos}
        \cup {[data |-> d, info |-> 0] : d \in {"EntityRef", "EntityMut"}}

\* the access each implementation hands to the builder: borrows_component
\* adds a required component access, maybe_borrows_component an optional
\* one, borrows_all_entities an access to all entities
QueryData_access(d) ==
    IF d.data = "&C" THEN Access_required_component(d.info, "Read")
    ELSE IF d.data = "&mut C" THEN Access_required_component(d.info, "Write")
    ELSE IF d.data = "Option<&C>" THEN Access_component(d.info, "Read")
    ELSE IF d.data = "Option<&mut C>" THEN Access_component(d.info, "Write")
    ELSE IF d.data = "EntityRef" THEN Access_all_entities("Read")
    ELSE Access_all_entities("Read")

(***************************************************************************)
(* Commands (commands/mod.rs): the infos of the pushed commands, in push   *)
(* order, and the byte buffer their values are written to.  A command type *)
(* is 0, a zero-sized command, or c > 0, the closure EntityQueue::push_fn  *)
(* builds for the after_insert hook of component c: it captures the id of  *)
(* its entity and has size 1 (in units of an EntityId).  bytes[i] is the   *)
(* id last written at byte index i, 0 while none was; len is bytes.len(),  *)
(* which Vec::reserve leaves as it is.                                     *)
(***************************************************************************)
CommandTypes == 0..NumCommandTypes

Captured == 1..NumCaptured

Command(type, value) == [type |-> type, value |-> IF type = 0 THEN 0 ELSE value]

CommandInfo_size(type) == IF type = 0 THEN 0 ELSE 1

Commands_new ==
    [commands |-> <<>>, len |-> 0,
     bytes |-> [i \in 0..MaxCommands |-> 0]]

Commands_push(self, command) ==
    LET byte_index == self.len
    IN  [self EXCEPT
            !.commands = Append(@, command.type),
            !.bytes = IF CommandInfo_size(command.type) > 0
                      THEN [@ EXCEPT ![byte_index] = command.value] ELSE @]

\* CommandInfo::call: read_unaligned of the info's type at the pointer;
\* every sized command is one captured id, so the id found there is read
CommandInfo_call(type, bytes, byte_index) == Command(type, bytes[byte_index])

\* the scan of Commands::for_each: the commands it calls f on, in order; it
\* ends at the first info whose byte index is past bytes.len()
RECURSIVE Commands_scan(_, _, _)
Commands_scan(self, infos, byte_index) ==
    IF infos = <<>> \/ ~(byte_index <= self.len) THEN <<>>
    ELSE <<CommandInfo_call(Head(infos), self.bytes, byte_index)>>
         \o Commands_scan(self, Tail(infos),
                          byte_index + CommandInfo_size(Head(infos)))

\* Commands::for_each drains the infos, whether f was called on them or not
Commands_for_each(self) == [self EXCEPT !.commands = <<>>]

\* Bundle::write: ComponentWriter::write queues the after_insert hook of
\* each component of the bundle for the entity
RECURSIVE Bundle_write(_, _, _)
Bundle_write(self, bundle, entity) ==
    IF bundle = {} THEN self
    ELSE LET c == CHOOSE x \in bundle : \A y \in bundle : x <= y
         IN  Bundle_write(Commands_push(self, Command(c, entity)),
                          bundle \ {c}, entity)

(***************************************************************************)
(* SystemNode (system/node.rs): a system, the cached validity of its       *)
(* access and its run conditions. A system is the sequence of accesses its *)
(* inputs declare; a run condition is a read-only system whose answer in   *)
(* the world of a call is an input of the call. last is history: the call  *)
(* last made, its output, whether the body of the system was executed and  *)
(* how many conditions were run.                                           *)
(***************************************************************************)
\* what a system input declares: the world, all entities, a component its
\* query requires or a resource
InputAccesses ==
    {a \in Accesses : a.required}

Systems == UNION {[1..n -> InputAccesses] : n \in 0..MaxInputs}

ConditionIds == 1..NumConditions

NoRun == [op |-> "None", output |-> "None", body |-> FALSE, asked |-> 0]

SystemNode_new(system) ==
    [inner |-> system, is_valid |-> "None", conditions |-> <<>>, last |-> NoRun]

SystemNode_insert_condition(self, condition) ==
    [self EXCEPT !.conditions = Append(@, condition)]

\* SystemNode::access: the inner system adds the access of each of its
\* inputs, in their order
RECURSIVE SystemNode_access(_, _)
SystemNode_access(system, access) ==
    IF system = <<>> THEN access
    ELSE SystemNode_access(Tail(system), WorldAccess_add(access, Head(system)))

\* WorldAccess::is_valid: adding the accesses latched no error
WorldAccess_is_valid(self) == ~self.error.some

SystemNode_validate(self) ==
    IF self.is_valid = "None"
    THEN [self EXCEPT !.is_valid =
             IF WorldAccess_is_valid(SystemNode_access(self.inner, WorldAccess_new))
             THEN "Some(true)" ELSE "Some(false)"]
    ELSE self

\* conditions.iter_mut().any(|condition| !condition.run(world)): the
\* conditions are run in order up to the first that answers false
RECURSIVE Conditions_any(_, _, _)
Conditions_any(conditions, answers, asked) ==
    IF conditions = <<>> THEN [any |-> FALSE, asked |-> asked]
    ELSE IF ~answers[Head(conditions)] THEN [any |-> TRUE, asked |-> asked + 1]
    ELSE Conditions_any(Tail(conditions), answers, asked + 1)

\* a run_from that does not ask the run conditions
SystemNode_run_from_unconditioned(self, answers) ==
    LET validated == SystemNode_validate(self)
    IN  IF validated.is_valid # "Some(true)"
        THEN [validated EXCEPT !.last = [op |-> "run_from", output |-> "None",
                                         body |-> FALSE, asked |-> 0]]
        ELSE [validated EXCEPT !.last = [op |-> "run_from", output |-> "Some",
                                         body |-> TRUE, asked |-> 0]]

SystemNode_run_from(self, answers) ==
    LET validated == SystemNode_validate(self)
        failed == Conditions_any(validated.conditions, answers, 0)
    IN  IF validated.is_valid # "Some(true)"
        THEN [validated EXCEPT !.last = [op |-> "run_from", output |-> "None",
                                         body |-> FALSE, asked |-> 0]]
        ELSE IF failed.any
        THEN [validated EXCEPT !.last = [op |-> "run_from", output |-> "None",
                                         body |-> FALSE, asked |-> failed.asked]]
        ELSE [validated EXCEPT !.last = [op |-> "run_from", output |-> "Some",
                                         body |-> TRUE, asked |-> failed.asked]]

\* force_run_from_mut runs the inner system, whatever the conditions say
SystemNode_force_run_from_mut(self) ==
    [self EXCEPT !.last = [op |-> "force_run_from_mut", output |-> "Some",
                           body |-> TRUE, asked |-> 0]]

(***************************************************************************)
(* ComponentSet (component/set.rs) over its SparseSet<ComponentInfo>       *)
(* (storage/sparse/set.rs): inner is the vector of slots, slot c holding   *)
(* the info of the component whose sparse index it is or 0 for None, and   *)
(* len the number of filled slots. A ComponentInfo is its id, by which it  *)
(* is compared.                                                            *)
(***************************************************************************)
SetComponents == 1..NumSetComponents

SetNames == 1..NumSets

ComponentSet_new == [inner |-> <<>>, len |-> 0]

ComponentSet_contains(self, component) ==
    component <= Len(self.inner) /\ self.inner[component] # 0

\* SparseSet::insert resizes the slots up to the index, then replaces
ComponentSet_insert(self, component) ==
    LET resized == IF component > Len(self.inner)
                   THEN self.inner \o [i \in 1..(component - Len(self.inner)) |-> 0]
                   ELSE self.inner
    IN  [inner |-> [resized EXCEPT ![component] = component],
         len   |-> IF resized[component] = 0 THEN self.len + 1 ELSE self.len]

\* SparseSet::remove takes the value out of its slot, which stays
ComponentSet_remove(self, component) ==
    IF ComponentSet_contains(self, component)
    THEN [inner |-> [self.inner EXCEPT ![component] = 0], len |-> self.len - 1]
    ELSE self

\* SparseIter: the filled slots in the order of their indices
RECURSIVE ComponentSet_iter(_)
ComponentSet_iter(self) ==
    IF self.inner = <<>> THEN <<>>
    ELSE (IF Head(self.inner) # 0 THEN <<Head(self.inner)>> ELSE <<>>)
             \o ComponentSet_iter([self EXCEPT !.inner = Tail(@)])

\* PartialEq of SparseSet: self.iter().eq(other), the values and not the
\* slots
ComponentSet_eq(self, other) == ComponentSet_iter(self) = ComponentSet_iter(other)

\* the loop of intersection over the components of self
RECURSIVE ComponentSet_intersection_loop(_, _, _)
ComponentSet_intersection_loop(intersection, components, other) ==
    IF components = <<>> THEN intersection
    ELSE ComponentSet_intersection_loop(
             IF ~ComponentSet_contains(other, Head(components))
             THEN ComponentSet_remove(intersection, Head(components))
             ELSE intersection,
             Tail(components), other)

\* an intersection that is the clone of self, nothing removed
ComponentSet_intersection_clone(self, other) == self

ComponentSet_intersection(self, other) ==
    ComponentSet_intersection_loop(self, ComponentSet_iter(self), other)

(***************************************************************************)
(* Resources (resource/storage.rs): one ResourceBox per inserted resource. *)
(* The box is an AtomicRefCell: borrow is its counter (a shared borrow     *)
(* adds 1, a mutable borrow sets HighBit, a refused shared borrow leaves   *)
(* its increment until the mutable borrow is released); refs and muts are  *)
(* the Res and ResMut guards the callers hold.                             *)
(***************************************************************************)
ResourceIds == 1..NumResources

NoResource == [some |-> FALSE, borrow |-> 0, refs |-> 0, muts |-> 0]

ResourceBox_new == [some |-> TRUE, borrow |-> 0, refs |-> 0, muts |-> 0]

Resources_new == [r \in ResourceIds |-> NoResource]

\* ResourceBox::get: AtomicRefCell::try_borrow
ResourceBox_get(box) ==
    LET new == box.borrow + 1
    IN  IF new >= HighBit
        THEN [ok |-> FALSE, error |-> "AlreadyBorrowed",
              box |-> [box EXCEPT !.borrow = new]]
        ELSE [ok |-> TRUE, error |-> "",
              box |-> [box EXCEPT !.borrow = new, !.refs = @ + 1]]

\* a get_mut that does not look at the counter
ResourceBox_get_mut_unchecked(box) ==
    [ok |-> TRUE, error |-> "",
     box |-> [box EXCEPT !.borrow = HighBit, !.muts = @ + 1]]

\* ResourceBox::get_mut: AtomicRefCell::try_borrow_mut
ResourceBox_get_mut(box) ==
    IF box.borrow = 0
    THEN [ok |-> TRUE, error |-> "",
          box |-> [box EXCEPT !.borrow = HighBit, !.muts = @ + 1]]
    ELSE [ok |-> FALSE, error |-> "AlreadyBorrowed", box |-> box]

\* Resources::get and Resources::get_mut: NotFound for a resource that was
\* not inserted
Resources_get(self, r, mutable) ==
    IF ~self[r].some THEN [ok |-> FALSE, error |-> "NotFound", box |-> self[r]]
    ELSE IF mutable THEN ResourceBox_get_mut(self[r])
    ELSE ResourceBox_get(self[r])

NoOutcome == [resource |-> 0, mutable |-> FALSE, ok |-> FALSE, error |-> ""]

(***************************************************************************)
(* EntityId, EntityAddr, EntitySlot                                        *)
(***************************************************************************)
(***************************************************************************)
(* Components as a registry of tables (component/storage.rs): bundles maps *)
(* the type of a bundle, type_sets the TypeSet of a header, to a TableId.  *)
(* A bundle type is the sequence of its component types; a table is kept   *)
(* as its header and the number of its entities.  TableId t is element t   *)
(* of tables, 0 stands for a key the map does not have.  A TypeSet is      *)
(* hashed and compared by its values in the order of their sparse index,   *)
(* so the key of type_sets is the set of the types.                        *)
(***************************************************************************)
BundleTypes ==
    {<<>>} \cup {<<a>> : a \in 1..NumRegistryTypes}
           \cup ({<<a, b>> : a, b \in 1..NumRegistryTypes} \ {<<a, a>> : a \in 1..NumRegistryTypes})

Bundle_types(B) == {B[i] : i \in 1..Len(B)}

Registry_new ==
    [bundles   |-> [B \in BundleTypes |-> 0],
     type_sets |-> [header \in SUBSET (1..NumRegistryTypes) |-> 0],
     tables    |-> <<>>,
     last      |-> [id |-> 0, by |-> "None"]]

\* a reserve that only knows the table of a bundle type it has seen
Registry_reserve_by_type(self, B) ==
    IF self.bundles[B] # 0
    THEN [self EXCEPT !.last = [id |-> self.bundles[B], by |-> "bundles"]]
    ELSE [self EXCEPT !.bundles[B] = Len(self.tables) + 1,
                      !.type_sets[Bundle_types(B)] = Len(self.tables) + 1,
                      !.tables = Append(@, [header |-> Bundle_types(B), len |-> 0]),
                      !.last = [id |-> Len(self.tables) + 1, by |-> "new"]]

\* Components::reserve::<B>: the table cached for the bundle type, else
\* the table of the header B::types(), else a new table entered in both
\* maps; last is the id returned and where it was found
Registry_reserve(self, B) ==
    IF self.bundles[B] # 0
    THEN [self EXCEPT !.last = [id |-> self.bundles[B], by |-> "bundles"]]
    ELSE IF self.type_sets[Bundle_types(B)] # 0
    THEN [self EXCEPT !.last = [id |-> self.type_sets[Bundle_types(B)],
                                by |-> "type_sets"]]
    ELSE [self EXCEPT !.bundles[B] = Len(self.tables) + 1,
                      !.type_sets[Bundle_types(B)] = Len(self.tables) + 1,
                      !.tables = Append(@, [header |-> Bundle_types(B), len |-> 0]),
                      !.last = [id |-> Len(self.tables) + 1, by |-> "new"]]

\* Components::realloc, for an entity of old_table: the table of new_header
\* from type_sets, else a new one; the entity joins the new table and
\* leaves the old one in the loop over the shared types, or joins it
\* through init when there is none and the header grew
Registry_realloc(self, old_table, new_header) ==
    IF \/ self.tables[old_table].len = 0
       \/ self.tables[old_table].header = new_header
    THEN [self EXCEPT !.last = [id |-> 0, by |-> "None"]]
    ELSE LET found == self.type_sets[new_header]
             new_table == IF found # 0 THEN found ELSE Len(self.tables) + 1
             R == IF found # 0 THEN self
                  ELSE [self EXCEPT !.type_sets[new_header] = new_table,
                                    !.tables = Append(@, [header |-> new_header,
                                                          len |-> 0])]
             old_header == self.tables[old_table].header
             shared == old_header \cap new_header # {}
             grew == Cardinality(new_header) > Cardinality(old_header)
         IN  IF old_table = new_table
             THEN [R EXCEPT !.last = [id |-> 0, by |-> "None"]]
             ELSE [R EXCEPT !.tables[old_table].len = IF shared THEN @ - 1 ELSE @,
                            !.tables[new_table].len = IF shared \/ grew THEN @ + 1 ELSE @,
                            !.last = [id |-> new_table,
                                      by |-> IF found # 0 THEN "realloc" ELSE "new"]]

EntityId_new(index, version) == [index |-> index, version |-> version]

EntityId_from_index(index) == EntityId_new(index, 1)

NoEntity == [index |-> 0, version |-> 0]

NoAddr == [some |-> FALSE, table |-> 0, row |-> 0]

SomeAddr(table, row) == [some |-> TRUE, table |-> table, row |-> row]

EntitySlot_new == [version |-> 1, alive |-> TRUE, addr |-> NoAddr]

(***************************************************************************)
(* Entities: the operations, as functions of the allocator value E.        *)
(***************************************************************************)
Entities_new ==
    [slots |-> <<>>, cursor |-> 0, pending |-> <<>>, allocated |-> 0,
     reserved |-> 0, panic |-> FALSE]

Entities_len(E) == E.allocated + E.reserved

HasSlot(E, entity) == entity.index < Len(E.slots)

SlotOf(E, entity) == E.slots[entity.index + 1]

Entities_contains(E, entity) ==
    IF HasSlot(E, entity)
    THEN SlotOf(E, entity).alive /\ SlotOf(E, entity).version = entity.version
    ELSE LET n == E.cursor
             abs == IF n < 0 THEN -n ELSE n
         IN  /\ entity.version = 1
             /\ n < 0
             /\ entity.index <= abs + Len(E.slots)

Entities_get(E, entity) ==
    IF HasSlot(E, entity) THEN SlotOf(E, entity).addr ELSE NoAddr

\* EntityRef::new and EntityMut::new: Err(EntityNotFound) for an id that is
\* not contained, else new_unchecked, whose unwrap_unchecked of the address
\* is undefined when the slot is missing or holds none
EntityRef_new(E, id) ==
    IF ~Entities_contains(E, id) THEN "Err"
    ELSE IF Entities_get(E, id).some THEN "Ok"
    ELSE "Undefined"

Entities_flush(E) ==
    IF E.reserved = 0 THEN E
    ELSE LET new_cursor == IF E.cursor >= 0 THEN E.cursor ELSE 0
             extended == IF E.cursor >= 0 THEN E.slots
                         ELSE E.slots \o [i \in 1..(-E.cursor) |-> EntitySlot_new]
             counted == IF E.cursor >= 0 THEN E.allocated
                        ELSE E.allocated + (-E.cursor)
         IN  IF Len(E.pending) < new_cursor
             THEN [E EXCEPT !.slots = extended, !.panic = TRUE]
             ELSE [E EXCEPT !.slots = extended,
                            !.cursor = new_cursor,
                            !.allocated = counted + (Len(E.pending) - new_cursor),
                            !.pending = <<>>,
                            !.reserved = 0]

Entities_alloc(E) ==
    LET F == Entities_flush(E)
        n == Len(F.pending)
    IN  IF F.panic THEN [e |-> F, id |-> NoEntity]
        ELSE IF n > 0
        THEN LET index == F.pending[n]
             IN  [e  |-> [F EXCEPT !.allocated = F.allocated + 1,
                                   !.pending = SubSeq(F.pending, 1, n - 1),
                                   !.cursor = n - 1],
                  id |-> EntityId_new(index, F.slots[index + 1].version)]
        ELSE [e  |-> [F EXCEPT !.allocated = F.allocated + 1,
                               !.slots = Append(F.slots, EntitySlot_new)],
              id |-> EntityId_from_index(Len(F.slots) + 1 + F.reserved - 1)]

\* Entities::alloc_end: a new slot at the end, without a flush
Entities_alloc_end(E) ==
    [e  |-> [E EXCEPT !.allocated = E.allocated + 1,
                      !.slots = Append(E.slots, EntitySlot_new)],
     id |-> EntityId_from_index(Len(E.slots) + 1 + E.reserved - 1)]

\* Entities::alloc_many: count new slots at the end; the range start..end
Entities_alloc_many(E, count) ==
    LET F == Entities_flush(E)
    IN  [e     |-> [F EXCEPT !.allocated = F.allocated + count,
                             !.slots = F.slots \o [i \in 1..count |-> EntitySlot_new]],
         start |-> Len(F.slots),
         end   |-> Len(F.slots) + count]

\* EntitySlots::next after `position` slots were consumed: the id of the
\* next alive slot, with the position after it, or none at the end
RECURSIVE EntitySlots_next(_, _)
EntitySlots_next(E, position) ==
    IF position >= Len(E.slots) THEN [item |-> NoEntity, position |-> position]
    ELSE IF E.slots[position + 1].alive
    THEN [item     |-> EntityId_new(position, E.slots[position + 1].version),
          position |-> position + 1]
    ELSE EntitySlots_next(E, position + 1)

\* ExactSizeIterator::len of EntitySlots: the length of the inner iterator
\* over the slots
EntitySlots_len(E, position) == Len(E.slots) - position

\* Entities::iter run to its end from a position
RECURSIVE Entities_iter(_, _)
Entities_iter(E, position) ==
    IF EntitySlots_next(E, position).item = NoEntity THEN <<>>
    ELSE <<EntitySlots_next(E, position).item>>
             \o Entities_iter(E, EntitySlots_next(E, position).position)

Entities_reserve_add(E) == [E EXCEPT !.reserved = E.reserved + 1]

Entities_reserve_sub(E) ==
    LET n == E.cursor
        D == [E EXCEPT !.cursor = n - 1]
    IN  IF n > 0
        THEN IF n - 1 < Len(E.pending)
             THEN LET index == E.pending[n]
                  IN  [e |-> D, id |-> EntityId_new(index, E.slots[index + 1].version)]
             ELSE [e |-> [D EXCEPT !.panic = TRUE], id |-> NoEntity]
        ELSE [e |-> D, id |-> EntityId_from_index(Len(E.slots) - n)]

Entities_reserve(E) == Entities_reserve_sub(Entities_reserve_add(E))

Entities_free(E, entity) ==
    LET F == Entities_flush(E)
    IN  IF F.panic \/ ~HasSlot(F, entity) THEN [e |-> F, addr |-> NoAddr]
        ELSE IF entity.version # SlotOf(F, entity).version
        THEN [e |-> F, addr |-> NoAddr]
        ELSE LET slot == SlotOf(F, entity)
                 pending == Append(F.pending, entity.index)
                 G == [F EXCEPT !.slots[entity.index + 1] =
                                    [version |-> slot.version + 1,
                                     alive |-> FALSE, addr |-> NoAddr],
                                !.pending = pending,
                                !.cursor = Len(pending)]
             IN  IF F.allocated = 0
                 THEN [e |-> [G EXCEPT !.panic = TRUE], addr |-> slot.addr]
                 ELSE [e |-> [G EXCEPT !.allocated = F.allocated - 1],
                       addr |-> slot.addr]

Entities_set(E, entity, addr) ==
    LET F == Entities_flush(E)
    IN  IF ~F.panic /\ HasSlot(F, entity) /\ SlotOf(F, entity).alive
           /\ SlotOf(F, entity).version = entity.version
        THEN [e |-> [F EXCEPT !.slots[entity.index + 1].addr = addr], ok |-> TRUE]
        ELSE [e |-> F, ok |-> FALSE]

Entities_clear(E) ==
    [E EXCEPT !.slots = <<>>, !.cursor = 0, !.pending = <<>>,
              !.allocated = 0, !.reserved = 0]

(***************************************************************************)
(* The allocator on its own: the crate's callers of Entities.              *)
(***************************************************************************)
Idle == \A t \in Threads : thr[t] = "idle"

Running == ~entities.panic

AddrChoices == {SomeAddr(0, 0)}

\* every id a caller can hold: handed out at some time
Handles == live \cup freed

InitThr == [t \in Threads |-> "idle"]

NoIter == [active |-> FALSE, done |-> FALSE, required |-> {}, tables |-> <<>>,
           len |-> 0, table |-> -1, row |-> 0, yielded |-> <<>>]

Init ==
    /\ entities = Entities_new
    /\ tables = <<>>
    /\ thr = InitThr
    /\ iter = NoIter
    /\ live = {}
    /\ freed = {}
    /\ written = 0
    /\ dropped = [v \in 1..MaxValues |-> 0]
    /\ owner = [v \in 1..MaxValues |-> NoEntity]
    /\ clears = 0
    /\ world_access = WorldAccess_new
    /\ declared = <<>>
    /\ storage = <<>>
    /\ command_buffer = [buffer |-> Commands_new, pushed |-> <<>>, applied |-> <<>>]
    /\ resource_cells = [cells |-> Resources_new, outcome |-> NoOutcome]
    /\ component_sets = [sets |-> [s \in SetNames |-> ComponentSet_new], last |-> [op |-> "None", out |-> 0]]
    /\ node = SystemNode_new(<<>>)
    /\ registry = Registry_new

Alloc ==
    /\ Running /\ Idle
    /\ LET r == Entities_alloc(entities)
       IN  /\ Len(r.e.slots) <= MaxSlots
           /\ entities' = r.e
           /\ live' = IF r.e.panic THEN live ELSE live \cup {r.id}
    /\ UNCHANGED <<component_sets, node, registry, command_buffer, resource_cells, world_access, declared, storage, clears, tables, thr, iter, freed, written, dropped, owner>>

ReserveAdd(t) ==
    /\ Running
    /\ thr[t] = "idle"
    /\ LET inflight == Cardinality({u \in Threads : thr[u] = "sub"})
       IN  Len(entities.slots) - Min(entities.cursor - inflight - 1, 0) <= MaxSlots
    /\ entities' = Entities_reserve_add(entities)
    /\ thr' = [thr EXCEPT ![t] = "sub"]
    /\ UNCHANGED <<component_sets, node, registry, command_buffer, resource_cells, world_access, declared, storage, clears, tables, iter, live, freed, written, dropped, owner>>

ReserveSub(t) ==
    /\ Running
    /\ thr[t] = "sub"
    /\ LET r == Entities_reserve_sub(entities)
       IN  /\ entities' = r.e
           /\ thr' = [thr EXCEPT ![t] = "idle"]
           /\ live' = IF r.e.panic THEN live ELSE live \cup {r.id}
    /\ UNCHANGED <<component_sets, node, registry, command_buffer, resource_cells, world_access, declared, storage, clears, tables, iter, freed, written, dropped, owner>>

Flush ==
    /\ Running /\ Idle
    /\ entities.reserved > 0
    /\ entities' = Entities_flush(entities)
    /\ UNCHANGED <<component_sets, node, registry, command_buffer, resource_cells, world_access, declared, storage, clears, tables, thr, iter, live, freed, written, dropped, owner>>

Free(entity) ==
    /\ Running /\ Idle
    /\ HasSlot(entities, entity) => SlotOf(entities, entity).version < MaxVersion
    /\ LET r == Entities_free(entities, entity)
           hit == /\ HasSlot(r.e, entity)
                  /\ SlotOf(r.e, entity) # SlotOf(Entities_flush(entities), entity)
       IN  /\ entities' = r.e
           /\ live' = IF hit THEN live \ {entity} ELSE live
           /\ freed' = IF hit THEN freed \cup {entity} ELSE freed
    /\ UNCHANGED <<component_sets, node, registry, command_buffer, resource_cells, world_access, declared, storage, clears, tables, thr, iter, written, dropped, owner>>

Set(entity, addr) ==
    /\ Running /\ Idle
    /\ entities' = Entities_set(entities, entity, addr).e
    /\ UNCHANGED <<component_sets, node, registry, command_buffer, resource_cells, world_access, declared, storage, clears, tables, thr, iter, live, freed, written, dropped, owner>>

EntitiesClear ==
    /\ Running /\ Idle
    /\ entities' = Entities_clear(entities)
    /\ live' = {}
    /\ freed' = freed \cup live
    /\ UNCHANGED <<component_sets, node, registry, command_buffer, resource_cells, world_access, declared, storage, clears, tables, thr, iter, written, dropped, owner>>

\* Entities::alloc_many: the caller makes the ids of the range it gets
AllocMany(count) ==
    /\ Running /\ Idle
    /\ LET r == Entities_alloc_many(entities, count)
       IN  /\ ~r.e.panic
           /\ Len(r.e.slots) <= MaxSlots
           /\ entities' = r.e
           /\ live' = live \cup {EntityId_new(index, r.e.slots[index + 1].version) :
                                     index \in r.start..(r.end - 1)}
    /\ UNCHANGED <<component_sets, node, registry, command_buffer, resource_cells, world_access, declared, storage, clears, tables, thr, iter, freed, written, dropped, owner>>

NextEntities ==
    \/ Alloc
    \/ \E count \in 1..MaxSlots : AllocMany(count)
    \/ \E t \in Threads : ReserveAdd(t)
    \/ \E t \in Threads : ReserveSub(t)
    \/ Flush
    \/ \E entity \in Handles : Free(entity)
    \/ \E entity \in Handles, addr \in AddrChoices : Set(entity, addr)
    \/ EntitiesClear

SpecEntities == Init /\ [][NextEntities]_vars

(***************************************************************************)
(* Building one WorldAccess: accesses are added through the borrows_*      *)
(* methods (Borrow) or by the access function of a query data atom         *)
(* (QueryAccess), at most MaxAccesses of them.                             *)
(***************************************************************************)
Borrow(a) ==
    /\ Len(declared) < MaxAccesses
    /\ world_access' = WorldAccess_add(world_access, a)
    /\ declared' = Append(declared, [data |-> "", access |-> a])
    /\ UNCHANGED <<component_sets, node, registry, command_buffer, resource_cells, storage, clears, entities, tables, thr, iter, live, freed,
                   written, dropped, owner>>

QueryAccess(d) ==
    /\ Len(declared) < MaxAccesses
    /\ world_access' = WorldAccess_add(world_access, QueryData_access(d))
    /\ declared' = Append(declared, [data |-> d.data, access |-> QueryData_access(d)])
    /\ UNCHANGED <<component_sets, node, registry, command_buffer, resource_cells, storage, clears, entities, tables, thr, iter, live, freed,
                   written, dropped, owner>>

NextAccess ==
    \/ \E a \in Accesses : Borrow(a)
    \/ \E d \in QueryDatas : QueryAccess(d)

SpecAccess == Init /\ [][NextAccess]_vars

(***************************************************************************)
(* SparseMap<TableRow, EntityId>: the slot vector and the count of filled  *)
(* slots.                                                                  *)
(***************************************************************************)
SparseMap_new == [inner |-> <<>>, len |-> 0]

SparseMap_get(m, index) ==
    IF index < Len(m.inner) THEN m.inner[index + 1] ELSE NoEntity

SparseMap_insert(m, index, value) ==
    LET n == Max(Len(m.inner), index + 1)
        resized == [i \in 1..n |-> IF i <= Len(m.inner) THEN m.inner[i] ELSE NoEntity]
    IN  [inner |-> [resized EXCEPT ![index + 1] = value],
         len   |-> IF resized[index + 1] = NoEntity THEN m.len + 1 ELSE m.len]

SparseMap_remove(m, index) ==
    IF SparseMap_get(m, index) = NoEntity THEN m
    ELSE [inner |-> [m.inner EXCEPT ![index + 1] = NoEntity], len |-> m.len - 1]

\* SparseIter::next on a fresh iterator: the first filled slot
SparseMap_first(m) ==
    LET filled == {i \in 1..Len(m.inner) : m.inner[i] # NoEntity}
    IN  IF filled = {} THEN NoEntity
        ELSE m.inner[CHOOSE i \in filled : \A j \in filled : i <= j]

(***************************************************************************)
(* Column: the cells of one component type. A cell holds the number of the *)
(* value written to it, 0 while its bytes are uninitialised. The capacity  *)
(* (at least Table::DEFAULT_CAPACITY) exceeds every row of the model.      *)
(***************************************************************************)
Column_get(column, row) ==
    IF row < Len(column) THEN column[row + 1] ELSE 0

Column_write(column, row, value) ==
    LET n == Max(Len(column), row + 1)
    IN  [i \in 1..n |-> IF i = row + 1 THEN value
                        ELSE IF i <= Len(column) THEN column[i] ELSE 0]

(***************************************************************************)
(* Table                                                                   *)
(***************************************************************************)
Table_with_capacity(components) ==
    [components |-> components,
     entities   |-> SparseMap_new,
     columns    |-> [c \in ComponentIds |-> <<>>]]

Table_len(table) == table.entities.len

Table_entity(table, row) == SparseMap_get(table.entities, row)

Table_push(table, entity) ==
    LET row == table.entities.len
    IN  [table |-> [table EXCEPT !.entities = SparseMap_insert(@, row, entity)],
         row   |-> row]

\* the debug_assert of Table::push: a checked build panics when the entity
\* is already in the table, an unchecked build goes on
Table_push_asserts(table, entity) ==
    \E i \in 1..Len(table.entities.inner) : table.entities.inner[i] = entity

Table_remove(table, row) ==
    [table EXCEPT !.entities = SparseMap_remove(@, row)]

Table_get_unchecked(table, row, component) ==
    Column_get(table.columns[component], row)

Table_write(table, row, component, value) ==
    IF component \in table.components
    THEN [table EXCEPT !.columns[component] = Column_write(@, row, value)]
    ELSE table

\* the values whose drop function Table::free / Table::clear runs for a row
RowValues(table, row) ==
    {Column_get(table.columns[c], row) : c \in table.components} \ {0}

Table_free(table, row) == Table_remove(table, row)

FilledRows(table) ==
    {i - 1 : i \in {j \in 1..Len(table.entities.inner) :
                        table.entities.inner[j] # NoEntity}}

\* Table::clear drops the columns of every filled row and keeps the rows
Table_clear_drops(table) ==
    UNION {RowValues(table, row) : row \in FilledRows(table)}

(***************************************************************************)
(* One table on its own: push (with the caller's write of every column),   *)
(* remove and free, each called within its safety contract.                *)
(***************************************************************************)
EntityIds ==
    {EntityId_new(index, version) :
        index \in 0..(MaxSlots - 1), version \in 1..MaxVersion}

InitTable ==
    /\ entities = Entities_new
    /\ tables = <<Table_with_capacity(ComponentIds)>>
    /\ thr = InitThr
    /\ iter = NoIter
    /\ live = {}
    /\ freed = {}
    /\ written = 0
    /\ dropped = [v \in 1..MaxValues |-> 0]
    /\ owner = [v \in 1..MaxValues |-> NoEntity]
    /\ clears = 0
    /\ world_access = WorldAccess_new
    /\ declared = <<>>
    /\ storage = <<>>
    /\ command_buffer = [buffer |-> Commands_new, pushed |-> <<>>, applied |-> <<>>]
    /\ resource_cells = [cells |-> Resources_new, outcome |-> NoOutcome]
    /\ component_sets = [sets |-> [s \in SetNames |-> ComponentSet_new], last |-> [op |-> "None", out |-> 0]]
    /\ node = SystemNode_new(<<>>)
    /\ registry = Registry_new

TablePush(entity) ==
    /\ ~Table_push_asserts(tables[1], entity)
    /\ written + NumComponents <= MaxValues
    /\ LET p == Table_push(tables[1], entity)
       IN  /\ p.row < MaxRows
           /\ tables' = <<[p.table EXCEPT !.columns =
                              [c \in ComponentIds |->
                                  Column_write(@[c], p.row, written + c)]]>>
    /\ written' = written + NumComponents
    /\ owner' = [v \in 1..MaxValues |->
                    IF v > written /\ v <= written + NumComponents
                    THEN entity ELSE owner[v]]
    /\ UNCHANGED <<component_sets, node, registry, command_buffer, resource_cells, world_access, declared, storage, clears, entities, thr, iter, live, freed, dropped>>

TableRemove(row) ==
    /\ Table_entity(tables[1], row) # NoEntity
    /\ tables' = <<Table_remove(tables[1], row)>>
    /\ owner' = [v \in 1..MaxValues |->
                    IF v \in RowValues(tables[1], row) THEN NoEntity ELSE owner[v]]
    /\ UNCHANGED <<component_sets, node, registry, command_buffer, resource_cells, world_access, declared, storage, clears, entities, thr, iter, live, freed, written, dropped>>

TableFree(row) ==
    /\ Table_entity(tables[1], row) # NoEntity
    /\ tables' = <<Table_free(tables[1], row)>>
    /\ dropped' = [v \in 1..MaxValues |->
                      IF v \in RowValues(tables[1], row)
                      THEN Min(dropped[v] + 1, MaxDrops) ELSE dropped[v]]
    /\ owner' = [v \in 1..MaxValues |->
                    IF v \in RowValues(tables[1], row) THEN NoEntity ELSE owner[v]]
    /\ UNCHANGED <<component_sets, node, registry, command_buffer, resource_cells, world_access, declared, storage, clears, entities, thr, iter, live, freed, written>>

\* Table::clear, and the drop of the table, which calls it: Column::free on
\* every column of every filled row; the rows stay filled
TableClear ==
    /\ \E v \in Table_clear_drops(tables[1]) : dropped[v] < MaxDrops
    /\ dropped' = [v \in 1..MaxValues |->
                      IF v \in Table_clear_drops(tables[1])
                      THEN Min(dropped[v] + 1, MaxDrops) ELSE dropped[v]]
    /\ owner' = [v \in 1..MaxValues |->
                    IF v \in Table_clear_drops(tables[1]) THEN NoEntity ELSE owner[v]]
    /\ UNCHANGED <<component_sets, node, registry, command_buffer, resource_cells, world_access, declared, storage, clears, entities, thr, iter, live, freed, written, tables>>

NextTable ==
    \/ \E entity \in EntityIds : TablePush(entity)
    \/ \E row \in 0..(MaxRows - 1) : TableRemove(row)
    \/ \E row \in 0..(MaxRows - 1) : TableFree(row)
    \/ TableClear

SpecTable == InitTable /\ [][NextTable]_vars

(***************************************************************************)
(* Components: the table registry. find-or-create by component set, and    *)
(* the move of an entity between tables.                                   *)
(***************************************************************************)
TableIds(T) == 0..(Len(T) - 1)

Components_reserve(T, set) ==
    IF \E t \in TableIds(T) : T[t + 1].components = set
    THEN [tables |-> T, id |-> CHOOSE t \in TableIds(T) : T[t + 1].components = set]
    ELSE [tables |-> Append(T, Table_with_capacity(set)), id |-> Len(T)]

Components_alloc(T, entity, set) ==
    LET r == Components_reserve(T, set)
        p == Table_push(r.tables[r.id + 1], entity)
    IN  [tables |-> [r.tables EXCEPT ![r.id + 1] = p.table],
         addr   |-> SomeAddr(r.id, p.row)]

RECURSIVE CopyCells(_, _, _, _)
CopyCells(new_table, old_table, old_row, new_row) ==
    LET shared == {c \in old_table.components \cap new_table.components :
                      Table_get_unchecked(new_table, new_row, c)
                          # Table_get_unchecked(old_table, old_row, c)}
    IN  IF shared = {} THEN new_table
        ELSE LET c == CHOOSE x \in shared : TRUE
             IN  CopyCells(
                     Table_write(new_table, new_row, c,
                                 Table_get_unchecked(old_table, old_row, c)),
                     old_table, old_row, new_row)

Components_realloc(T, entity, old_addr, new_components) ==
    LET a == Components_alloc(T, entity, new_components)
        old_table == a.tables[old_addr.table + 1]
        moved == CopyCells(a.tables[a.addr.table + 1], old_table,
                           old_addr.row, a.addr.row)
    IN  [tables |-> [a.tables EXCEPT
                        ![a.addr.table + 1] = moved,
                        ![old_addr.table + 1] = Table_remove(old_table, old_addr.row)],
         addr   |-> a.addr]

(***************************************************************************)
(* The world: spawn, insert, remove, despawn and clear. They need the      *)
(* world exclusively, so no query iterator is alive while they run.        *)
(***************************************************************************)
Exclusive == Running /\ Idle /\ iter = NoIter

\* the drop function runs on each value of the set (counted up to MaxDrops)
Drop(values) ==
    [v \in 1..MaxValues |->
        IF v \in values THEN Min(dropped[v] + 1, MaxDrops) ELSE dropped[v]]

\* a dropped value belongs to no entity any more
Disown(values) ==
    [v \in 1..MaxValues |-> IF v \in values THEN NoEntity ELSE owner[v]]

Rank(c, set) == Cardinality({x \in set : x <= c})

\* Bundle::write: one ComponentWriter::write per component of the bundle
WriteBundle(table, row, bundle, base) ==
    [table EXCEPT !.columns =
        [c \in ComponentIds |->
            IF c \in bundle /\ c \in table.components
            THEN Column_write(@[c], row, base + Rank(c, bundle))
            ELSE @[c]]]

Spawn(bundle, abort) ==
    /\ Exclusive
    /\ written + Cardinality(bundle) <= MaxValues
    /\ LET r == Entities_alloc(entities)
           a == Components_alloc(tables, r.id, bundle)
           t == a.addr.table + 1
           s == Entities_set(r.e, r.id, a.addr)
           \* EntityWorld::new(..).unwrap_unchecked() on an id that is not
           \* contained: undefined, the build either traps or goes on
           ub == ~Entities_contains(s.e, r.id)
           target == Components_reserve(tables, bundle)
       IN  /\ Len(r.e.slots) <= MaxSlots
           /\ a.addr.row < MaxRows
           /\ abort => (ub \/ Table_push_asserts(target.tables[target.id + 1], r.id))
           /\ entities' = [s.e EXCEPT !.panic = abort]
           /\ tables' = [a.tables EXCEPT
                            ![t] = WriteBundle(@, a.addr.row, bundle, written)]
           /\ live' = IF abort THEN live ELSE live \cup {r.id}
           /\ written' = written + Cardinality(bundle)
           /\ owner' = [v \in 1..MaxValues |->
                           IF v > written /\ v <= written + Cardinality(bundle)
                           THEN r.id ELSE owner[v]]
    /\ UNCHANGED <<component_sets, node, registry, command_buffer, resource_cells, world_access, declared, storage, clears, thr, iter, freed, dropped>>

\* EntityRef::contains::<C> of the entity at its stored address
Entity_contains(T, E, entity, component) ==
    LET addr == Entities_get(E, entity)
    IN  /\ addr.some
        /\ addr.table < Len(T)
        /\ component \in T[addr.table + 1].components

\* EntityRef::get::<C>: the value in the row of the stored address, 0 for
\* Err(ComponentNotFound)
Entity_get(T, E, entity, component) ==
    IF Entity_contains(T, E, entity, component)
    THEN LET addr == Entities_get(E, entity)
         IN  Table_get_unchecked(T[addr.table + 1], addr.row, component)
    ELSE 0

\* EntityMut::get_mut::<C>: Err(ComponentNotFound), here 0, only when the
\* world has no info for C, which it has once a table with C exists; else
\* the cell of C in the row of the stored address, without a look at the
\* components of the table: get_unchecked_mut on a column the table does
\* not have is undefined, here -1
EntityMut_get_mut(T, E, entity, component) ==
    LET addr == Entities_get(E, entity)
    IN  IF ~\E t \in TableIds(T) : component \in T[t + 1].components THEN 0
        ELSE IF component \in T[addr.table + 1].components
        THEN Table_get_unchecked(T[addr.table + 1], addr.row, component)
        ELSE -1

Insert(entity, component, abort) ==
    /\ Exclusive
    /\ Entities_contains(entities, entity)
    /\ Entities_get(entities, entity).some
    /\ written < MaxValues
    /\ LET old_addr == Entities_get(entities, entity)
           old_table == tables[old_addr.table + 1]
           value == written + 1
       IN  IF component \in old_table.components
           THEN \* Table::replace: the previous value goes to the caller
                LET prev == Table_get_unchecked(old_table, old_addr.row, component)
                IN  /\ ~abort
                    /\ tables' = [tables EXCEPT ![old_addr.table + 1] =
                                     Table_write(@, old_addr.row, component, value)]
                    /\ owner' = [v \in 1..MaxValues |->
                                    IF v = value THEN entity
                                    ELSE IF v = prev THEN NoEntity ELSE owner[v]]
                    /\ written' = written + 1
                    /\ UNCHANGED entities
           ELSE LET new_components == old_table.components \cup {component}
                    target == Components_reserve(tables, new_components)
                    r == Components_realloc(tables, entity, old_addr, new_components)
                IN  /\ r.addr.row < MaxRows
                    /\ abort => Table_push_asserts(target.tables[target.id + 1], entity)
                    /\ IF abort
                       THEN /\ entities' = [entities EXCEPT !.panic = TRUE]
                            /\ UNCHANGED <<tables, owner, written>>
                       ELSE /\ entities' = Entities_set(entities, entity, r.addr).e
                            /\ tables' = [r.tables EXCEPT ![r.addr.table + 1] =
                                             Table_write(@, r.addr.row, component, value)]
                            /\ owner' = [owner EXCEPT ![value] = entity]
                            /\ written' = written + 1
    /\ UNCHANGED <<component_sets, node, registry, command_buffer, resource_cells, world_access, declared, storage, clears, thr, iter, live, freed, dropped>>

\* EntityWorld::remove past its contains check: the value read from the
\* old row, the tables and the allocator after the move, and whether the
\* push into the new table trips its debug_assert
EntityWorld_remove(T, E, entity, component) ==
    LET old_addr == Entities_get(E, entity)
        old_table == T[old_addr.table + 1]
        prev == Table_get_unchecked(old_table, old_addr.row, component)
        new_components == old_table.components \ {component}
        target == Components_reserve(T, new_components)
        r == Components_realloc(T, entity, old_addr, new_components)
    IN  [prev |-> prev, tables |-> r.tables, addr |-> r.addr,
         entities |-> Entities_set(E, entity, r.addr).e,
         asserts |-> Table_push_asserts(target.tables[target.id + 1], entity)]

Remove(entity, component, abort) ==
    /\ Exclusive
    /\ Entities_contains(entities, entity)
    /\ Entity_contains(tables, entities, entity, component)
    /\ LET r == EntityWorld_remove(tables, entities, entity, component)
       IN  /\ r.addr.row < MaxRows
           /\ abort => r.asserts
           /\ IF abort
              THEN /\ entities' = [entities EXCEPT !.panic = TRUE]
                   /\ UNCHANGED <<tables, owner>>
              ELSE /\ entities' = r.entities
                   /\ tables' = r.tables
                   /\ owner' = [v \in 1..MaxValues |->
                                   IF v = r.prev THEN NoEntity ELSE owner[v]]
    /\ UNCHANGED <<component_sets, node, registry, command_buffer, resource_cells, world_access, declared, storage, clears, thr, iter, live, freed, written, dropped>>

\* Table::free on a row that holds no entity is undefined
\* (unwrap_unchecked on None): the build either traps or goes on
FreeUndefined(addr) ==
    Table_entity(tables[addr.table + 1], addr.row) = NoEntity

\* Component::before_remove as despawn runs it for the components of the
\* entity's table.  The default hook does nothing; with moves the hook of
\* a component moves the entity it is called for: it takes the component
\* out of the entity (once) and drops it.
Hooks_moved(r) ==
    [moved |-> TRUE, tables |-> r.tables, entities |-> r.entities,
     drops |-> {r.prev} \ {0}, addr |-> r.addr, asserts |-> r.asserts]

Hooks_before_remove(T, E, entity, moves) ==
    LET components == T[Entities_get(E, entity).table + 1].components
    IN  IF moves /\ components # {}
        THEN Hooks_moved(EntityWorld_remove(T, E, entity,
                 CHOOSE c \in components : \A d \in components : c <= d))
        ELSE [moved |-> FALSE, tables |-> T, entities |-> E, drops |-> {},
              addr |-> Entities_get(E, entity), asserts |-> FALSE]

\* the part of EntityWorld::despawn after its hooks returned h: the id is
\* freed, then the row of addr, the address read before the hooks ran
EntityWorld_despawn(addr, h, entity, abort) ==
    LET table == h.tables[addr.table + 1]
        hooked == [v \in 1..MaxValues |->
                      IF v \in h.drops THEN Min(dropped[v] + 1, MaxDrops)
                      ELSE dropped[v]]
    IN  /\ h.moved => (~h.asserts /\ h.addr.row < MaxRows)
        /\ abort => Table_entity(table, addr.row) = NoEntity
        /\ entities' = [Entities_free(h.entities, entity).e EXCEPT !.panic = @ \/ abort]
        /\ tables' = [h.tables EXCEPT ![addr.table + 1] = Table_free(@, addr.row)]
        /\ dropped' = IF abort THEN hooked
                      ELSE [v \in 1..MaxValues |->
                               IF v \in RowValues(table, addr.row)
                               THEN Min(hooked[v] + 1, MaxDrops) ELSE hooked[v]]
        /\ owner' = IF abort THEN Disown(h.drops)
                    ELSE Disown(h.drops \cup RowValues(table, addr.row))

\* EntityWorld::despawn, reached through EntityWorld::new: the address is
\* read, the hooks run, then the id and the row of that address are freed
Despawn(entity, moves, abort) ==
    /\ Exclusive
    /\ Entities_contains(entities, entity)
    /\ Entities_get(entities, entity).some
    /\ SlotOf(entities, entity).version < MaxVersion
    /\ moves => tables[Entities_get(entities, entity).table + 1].components # {}
    /\ EntityWorld_despawn(Entities_get(entities, entity),
                           Hooks_before_remove(tables, entities, entity, moves),
                           entity, abort)
    /\ live' = live \ {entity}
    /\ freed' = freed \cup {entity}
    /\ UNCHANGED <<component_sets, node, registry, command_buffer, resource_cells, world_access, declared, storage, clears, thr, iter, written>>

\* World::despawn: frees the id, then the row the allocator returned
WorldDespawn(entity, abort) ==
    /\ Exclusive
    /\ HasSlot(entities, entity)
    /\ SlotOf(entities, entity).version = entity.version
    /\ SlotOf(entities, entity).version < MaxVersion
    /\ LET r == Entities_free(entities, entity)
       IN  /\ abort => (r.addr.some /\ FreeUndefined(r.addr))
           /\ entities' = [r.e EXCEPT !.panic = @ \/ abort]
           /\ IF r.addr.some
              THEN LET values == RowValues(tables[r.addr.table + 1], r.addr.row)
                   IN  /\ tables' = [tables EXCEPT
                                        ![r.addr.table + 1] = Table_free(@, r.addr.row)]
                       /\ dropped' = IF abort THEN dropped ELSE Drop(values)
                       /\ owner' = IF abort THEN owner ELSE Disown(values)
              ELSE UNCHANGED <<tables, dropped, owner>>
    /\ live' = live \ {entity}
    /\ freed' = freed \cup {entity}
    /\ UNCHANGED <<component_sets, node, registry, command_buffer, resource_cells, world_access, declared, storage, clears, thr, iter, written>>

\* World::clear: Entities::clear, then Table::clear on every table
Clear ==
    /\ Exclusive
    /\ clears < MaxClears
    /\ clears' = clears + 1
    /\ entities' = Entities_clear(entities)
    /\ LET values == UNION {Table_clear_drops(tables[t + 1]) : t \in TableIds(tables)}
       IN  dropped' = Drop(values) /\ owner' = Disown(values)
    /\ live' = {}
    /\ freed' = freed \cup live
    /\ UNCHANGED <<component_sets, node, registry, command_buffer, resource_cells, world_access, declared, storage, tables, thr, iter, written>>

(***************************************************************************)
(* Query: the matched tables, and the iterator over them. The item of the  *)
(* iterator is the entity it fetches the query data of.                    *)
(***************************************************************************)
Access_matches(required, components) == required \subseteq components

RECURSIVE Query_new(_, _, _)
Query_new(T, required, t) ==
    IF t >= Len(T) THEN <<>>
    ELSE (IF Access_matches(required, T[t + 1].components) THEN <<t>> ELSE <<>>)
             \o Query_new(T, required, t + 1)

RECURSIVE Query_len(_, _)
Query_len(T, matched) ==
    IF matched = <<>> THEN 0
    ELSE Table_len(T[Head(matched) + 1]) + Query_len(T, Tail(matched))

Query_iter(T, required) ==
    LET matched == Query_new(T, required, 0)
    IN  [active |-> TRUE, done |-> FALSE, required |-> required,
         tables |-> matched, len |-> Query_len(T, matched),
         table |-> -1, row |-> 0, yielded |-> <<>>]

\* a next that leaves the table after each item it yields
RECURSIVE QueryIter_next_leaving(_, _)
QueryIter_next_leaving(T, it) ==
    IF it.len = 0 THEN [it |-> it, item |-> NoEntity]
    ELSE IF it.table = -1 /\ it.tables = <<>> THEN [it |-> it, item |-> NoEntity]
    ELSE LET took == it.table = -1
             table == IF took THEN Head(it.tables) ELSE it.table
             rest == IF took THEN Tail(it.tables) ELSE it.tables
             A == [it EXCEPT !.table = table, !.tables = rest]
             at_row == Table_entity(T[table + 1], it.row)
             entity == IF at_row # NoEntity THEN at_row
                       ELSE SparseMap_first(T[table + 1].entities)
         IN  IF entity # NoEntity
             THEN [it |-> [A EXCEPT !.len = @ - 1, !.table = -1], item |-> entity]
             ELSE IF Len(rest) # 0
             THEN QueryIter_next_leaving(T, [A EXCEPT !.table = -1, !.row = 0])
             ELSE [it |-> A, item |-> NoEntity]

RECURSIVE QueryIter_next(_, _)
QueryIter_next(T, it) ==
    IF it.len = 0 THEN [it |-> it, item |-> NoEntity]
    ELSE IF it.table = -1 /\ it.tables = <<>> THEN [it |-> it, item |-> NoEntity]
    ELSE LET took == it.table = -1
             table == IF took THEN Head(it.tables) ELSE it.table
             rest == IF took THEN Tail(it.tables) ELSE it.tables
             A == [it EXCEPT !.table = table, !.tables = rest]
             at_row == Table_entity(T[table + 1], it.row)
             entity == IF at_row # NoEntity THEN at_row
                       ELSE SparseMap_first(T[table + 1].entities)
         IN  IF entity # NoEntity
             THEN [it |-> [A EXCEPT !.len = @ - 1], item |-> entity]
             ELSE IF Len(rest) # 0
             THEN QueryIter_next(T, [A EXCEPT !.table = -1, !.row = 0])
             ELSE [it |-> A, item |-> NoEntity]

RECURSIVE QueryIter_collect(_, _)
QueryIter_collect(T, it) ==
    LET r == QueryIter_next(T, it)
    IN  IF r.item = NoEntity
        THEN [r.it EXCEPT !.active = FALSE, !.done = TRUE]
        ELSE QueryIter_collect(T, [r.it EXCEPT !.yielded = Append(@, r.item)])

\* Query::get and Query::get_mut of a query over the tables as they are:
\* addr_of is Entities::get, then the address' table is looked up in the
\* matched tables
Query_get(T, E, required, entity) ==
    LET addr == Entities_get(E, entity)
    IN  IF ~addr.some THEN "EntityNotFound"
        ELSE IF \E i \in 1..Len(Query_new(T, required, 0)) :
                    Query_new(T, required, 0)[i] = addr.table
        THEN "Ok"
        ELSE "Mismatch"

\* for item in &query: the borrow of the world lasts for the whole loop
QueryIterate(required) ==
    /\ Exclusive
    /\ iter' = QueryIter_collect(tables, Query_iter(tables, required))
    /\ UNCHANGED <<component_sets, node, registry, command_buffer, resource_cells, world_access, declared, storage, clears, entities, tables, thr, live, freed, written, dropped, owner>>

QueryDrop ==
    /\ Running /\ iter.done
    /\ iter' = NoIter
    /\ UNCHANGED <<component_sets, node, registry, command_buffer, resource_cells, world_access, declared, storage, clears, entities, tables, thr, live, freed, written, dropped, owner>>

Next ==
    \/ \E bundle \in SUBSET ComponentIds, abort \in BOOLEAN : Spawn(bundle, abort)
    \/ \E entity \in Handles, component \in ComponentIds, abort \in BOOLEAN :
          Insert(entity, component, abort)
    \/ \E entity \in Handles, component \in ComponentIds, abort \in BOOLEAN :
          Remove(entity, component, abort)
    \/ \E entity \in Handles, abort \in BOOLEAN : Despawn(entity, FALSE, abort)
    \/ \E entity \in Handles, abort \in BOOLEAN : WorldDespawn(entity, abort)
    \/ Clear
    \/ \E required \in SUBSET ComponentIds : QueryIterate(required)
    \/ QueryDrop

Spec == Init /\ [][Next]_vars

\* the structural operations of EntityWorld alone, with before_remove hooks
\* that may move the entity they are given
NextHooks ==
    \/ \E bundle \in SUBSET ComponentIds, abort \in BOOLEAN : Spawn(bundle, abort)
    \/ \E entity \in Handles, component \in ComponentIds, abort \in BOOLEAN :
          Insert(entity, component, abort)
    \/ \E entity \in Handles, component \in ComponentIds, abort \in BOOLEAN :
          Remove(entity, component, abort)
    \/ \E entity \in Handles, moves \in BOOLEAN, abort \in BOOLEAN :
          Despawn(entity, moves, abort)

SpecHooks == Init /\ [][NextHooks]_vars

(***************************************************************************)
(* One command buffer: pushes, Commands::apply, and the spawn of a bundle, *)
(* which writes the bundle through a ComponentWriter and then drains the   *)
(* buffer.  pushed is the history of the pushes since the last drain,      *)
(* applied the commands the last step called, with the values they read.   *)
(***************************************************************************)
CommandsPush(command) ==
    /\ Len(command_buffer.buffer.commands) < MaxCommands
    /\ command_buffer' = [buffer  |-> Commands_push(command_buffer.buffer, command),
                          pushed  |-> Append(command_buffer.pushed, command),
                          applied |-> <<>>]
    /\ UNCHANGED <<component_sets, node, registry, resource_cells, world_access, declared, storage, clears, entities,
                   tables, thr, iter, live, freed, written, dropped, owner>>

CommandsApply ==
    /\ command_buffer' =
           [buffer  |-> Commands_for_each(command_buffer.buffer),
            pushed  |-> <<>>,
            applied |-> Commands_scan(command_buffer.buffer,
                                      command_buffer.buffer.commands, 0)]
    /\ UNCHANGED <<component_sets, node, registry, resource_cells, world_access, declared, storage, clears, entities,
                   tables, thr, iter, live, freed, written, dropped, owner>>

\* impl Drop for Commands: for_each with the drop function of each info; the
\* buffer is gone afterwards and nothing was applied
CommandsDrop ==
    /\ command_buffer' = [buffer  |-> Commands_new,
                          pushed  |-> <<>>,
                          applied |-> <<>>]
    /\ UNCHANGED <<component_sets, node, registry, resource_cells, world_access, declared, storage, clears, entities,
                   tables, thr, iter, live, freed, written, dropped, owner>>

SpawnWrite(bundle, entity) ==
    /\ Len(command_buffer.buffer.commands) + Cardinality(bundle) <= MaxCommands
    /\ LET written_to == Bundle_write(command_buffer.buffer, bundle, entity)
       IN  command_buffer' =
               [buffer  |-> Commands_for_each(written_to),
                pushed  |-> <<>>,
                applied |-> Commands_scan(written_to, written_to.commands, 0)]
    /\ UNCHANGED <<component_sets, node, registry, resource_cells, world_access, declared, storage, clears, entities,
                   tables, thr, iter, live, freed, written, dropped, owner>>

NextCommands ==
    \/ \E type \in CommandTypes, value \in Captured : CommandsPush(Command(type, value))
    \/ CommandsApply
    \/ CommandsDrop
    \/ \E bundle \in SUBSET (CommandTypes \ {0}), entity \in Captured :
          SpawnWrite(bundle, entity)

SpecCommands == Init /\ [][NextCommands]_vars

(***************************************************************************)
(* The resources of one world, borrowed through &World: requests for Res   *)
(* and ResMut and the drops of the guards, in any order.  outcome is the   *)
(* result of the last request.                                             *)
(***************************************************************************)
ResourcesFrame ==
    UNCHANGED <<component_sets, node, registry, command_buffer, world_access, declared, storage, clears, entities,
                tables, thr, iter, live, freed, written, dropped, owner>>

\* World::create needs &mut World: no guard is alive
ResourcesInsert(r) ==
    /\ \A x \in ResourceIds :
           resource_cells.cells[x].refs = 0 /\ resource_cells.cells[x].muts = 0
    /\ ~resource_cells.cells[r].some
    /\ resource_cells' = [cells   |-> [resource_cells.cells EXCEPT ![r] = ResourceBox_new],
                          outcome |-> NoOutcome]
    /\ ResourcesFrame

\* World::resource and World::resource_mut
ResourcesGet(r, mutable) ==
    /\ ~mutable => resource_cells.cells[r].refs < MaxBorrows
    /\ resource_cells.cells[r].borrow + 1 < HighBit + MaxBorrows
    /\ resource_cells' =
           [cells   |-> [resource_cells.cells EXCEPT
                            ![r] = Resources_get(resource_cells.cells, r, mutable).box],
            outcome |-> [resource |-> r, mutable |-> mutable,
                         ok    |-> Resources_get(resource_cells.cells, r, mutable).ok,
                         error |-> Resources_get(resource_cells.cells, r, mutable).error]]
    /\ ResourcesFrame

\* the drop of a Res (AtomicRef) or of a ResMut (AtomicRefMut)
ResourcesDrop(r, mutable) ==
    /\ IF mutable THEN resource_cells.cells[r].muts > 0
       ELSE resource_cells.cells[r].refs > 0
    /\ resource_cells' =
           [cells   |-> [resource_cells.cells EXCEPT ![r] =
                            IF mutable THEN [@ EXCEPT !.borrow = 0, !.muts = @ - 1]
                            ELSE [@ EXCEPT !.borrow = @ - 1, !.refs = @ - 1]],
            outcome |-> NoOutcome]
    /\ ResourcesFrame

NextResources ==
    \/ \E r \in ResourceIds : ResourcesInsert(r)
    \/ \E r \in ResourceIds, mutable \in BOOLEAN : ResourcesGet(r, mutable)
    \/ \E r \in ResourceIds, mutable \in BOOLEAN : ResourcesDrop(r, mutable)

SpecResources == Init /\ [][NextResources]_vars

(***************************************************************************)
(* The entity-keyed component storage (component/storage.rs, table.rs,     *)
(* column.rs): a table has a header (a TypeSet), the set of its entities   *)
(* and one column per type of the header; entities and cells are found by  *)
(* the sparse index of the entity, which is its index.  A cell holds the   *)
(* value last copied into it, 0 while nothing was.                         *)
(***************************************************************************)
TypeIds == 1..NumTypes

EntityIndices == 0..(MaxSlots - 1)

ComponentTable_new(header) ==
    [header   |-> header,
     entities |-> [i \in EntityIndices |-> NoEntity],
     columns  |-> [c \in TypeIds |-> [i \in EntityIndices |-> 0]]]

\* SparseSet::contains looks at the slot of the sparse index only
ComponentTable_contains(table, entity) ==
    table.entities[entity.index] # NoEntity

ComponentTable_insert(table, entity) ==
    [table EXCEPT !.entities[entity.index] = entity]

ComponentTable_remove(table, entity) ==
    [table EXCEPT !.entities[entity.index] = NoEntity]

ComponentTable_get_ptr_unchecked_mut(table, entity, component) ==
    table.columns[component][entity.index]

\* Column::write copies the bytes behind the pointer over the cell and runs
\* no drop function; a table without the column is left as it is
ComponentTable_write_ptr(table, entity, type_data, ptr) ==
    IF type_data \in table.header
    THEN [table EXCEPT !.entities[entity.index] = entity,
                       !.columns[type_data][entity.index] = ptr]
    ELSE table

\* the values Table::free drops: the cell of the entity in every column
ComponentTable_free_drops(table, entity) ==
    IF ComponentTable_contains(table, entity)
    THEN {table.columns[c][entity.index] : c \in table.header}
    ELSE {}

ComponentTable_free(table, entity) ==
    IF ComponentTable_contains(table, entity)
    THEN ComponentTable_remove(table, entity)
    ELSE table

\* Components::reserve: the table of the header, created on first use
ComponentStorage_reserve(S, header) ==
    IF \E t \in 1..Len(S) : S[t].header = header
    THEN [tables |-> S, id |-> CHOOSE t \in 1..Len(S) : S[t].header = header]
    ELSE [tables |-> Append(S, ComponentTable_new(header)), id |-> Len(S) + 1]

RECURSIVE TakeBundle(_, _, _, _, _)
TakeBundle(table, entity, bundle, todo, base) ==
    IF todo = {} THEN table
    ELSE LET c == CHOOSE x \in todo : \A y \in todo : x <= y
         IN  TakeBundle(
                 ComponentTable_write_ptr(table, entity, c, base + Rank(c, bundle)),
                 entity, bundle, todo \ {c}, base)

ComponentStorage_alloc(S, entity, bundle, base) ==
    LET r == ComponentStorage_reserve(S, bundle)
        table == ComponentTable_insert(r.tables[r.id], entity)
    IN  [tables |-> [r.tables EXCEPT ![r.id] =
                        TakeBundle(table, entity, bundle, bundle, base)],
         id     |-> r.id]

\* the loop over the intersection of the headers, in the order of the
\* sparse indices; copies lists the <<type, value>> pairs it copied
RECURSIVE MoveExisting(_, _, _, _, _)
MoveExisting(old_table, new_table, entity, intersection, copies) ==
    IF intersection = {}
    THEN [old_table |-> old_table, new_table |-> new_table, copies |-> copies]
    ELSE LET component == CHOOSE x \in intersection : \A y \in intersection : x <= y
             ptr == ComponentTable_get_ptr_unchecked_mut(old_table, entity, component)
         IN  MoveExisting(
                 ComponentTable_remove(old_table, entity),
                 ComponentTable_write_ptr(
                     ComponentTable_insert(new_table, entity), entity, component, ptr),
                 entity, intersection \ {component},
                 Append(copies, <<component, ptr>>))

NoRealloc(S) ==
    [some |-> FALSE, tables |-> S, id |-> 0, copies |-> <<>>, drops |-> {}]

\* a realloc that also runs the drop function on the cells it moved
ComponentStorage_realloc_dropping(S, entity, old_table, new_header, drop, init) ==
    IF \/ old_table \notin 1..Len(S)
       \/ ~ComponentTable_contains(S[old_table], entity)
       \/ S[old_table].header = new_header
    THEN NoRealloc(S)
    ELSE LET r == ComponentStorage_reserve(S, new_header)
             new_table == r.id
         IN  IF old_table = new_table THEN NoRealloc(r.tables)
             ELSE LET old_header == r.tables[old_table].header
                      m == MoveExisting(r.tables[old_table], r.tables[new_table],
                                        entity, old_header \cap new_header, <<>>)
                      drops == IF drop
                               THEN {ComponentTable_get_ptr_unchecked_mut(
                                         m.old_table, entity, c) :
                                         c \in old_header}
                               ELSE {}
                      initialised ==
                          IF Cardinality(new_header) > Cardinality(old_header)
                          THEN TakeBundle(m.new_table, entity,
                                          new_header \ old_header,
                                          new_header \ old_header, init)
                          ELSE m.new_table
                  IN  [some |-> TRUE,
                       tables |-> [r.tables EXCEPT ![old_table] = m.old_table,
                                                   ![new_table] = initialised],
                       id |-> new_table, copies |-> m.copies, drops |-> drops]

\* Components::realloc; init is the value the caller's closure writes for
\* the added type (the types of new_header the old header does not have)
ComponentStorage_realloc(S, entity, old_table, new_header, drop, init) ==
    IF \/ old_table \notin 1..Len(S)
       \/ ~ComponentTable_contains(S[old_table], entity)
       \/ S[old_table].header = new_header
    THEN NoRealloc(S)
    ELSE LET r == ComponentStorage_reserve(S, new_header)
             new_table == r.id
         IN  IF old_table = new_table THEN NoRealloc(r.tables)
             ELSE LET old_header == r.tables[old_table].header
                      m == MoveExisting(r.tables[old_table], r.tables[new_table],
                                        entity, old_header \cap new_header, <<>>)
                      drops == IF drop
                               THEN {ComponentTable_get_ptr_unchecked_mut(
                                         m.old_table, entity, c) :
                                         c \in old_header \ new_header}
                               ELSE {}
                      initialised ==
                          IF Cardinality(new_header) > Cardinality(old_header)
                          THEN TakeBundle(m.new_table, entity,
                                          new_header \ old_header,
                                          new_header \ old_header, init)
                          ELSE m.new_table
                  IN  [some |-> TRUE,
                       tables |-> [r.tables EXCEPT ![old_table] = m.old_table,
                                                   ![new_table] = initialised],
                       id |-> new_table, copies |-> m.copies, drops |-> drops]

ComponentStorage_realloc_with(S, entity, old_table, component, drop, init) ==
    IF old_table \notin 1..Len(S) THEN NoRealloc(S)
    ELSE ComponentStorage_realloc(S, entity, old_table,
                                  S[old_table].header \cup {component}, drop, init)

ComponentStorage_realloc_without(S, entity, old_table, component, drop) ==
    IF old_table \notin 1..Len(S) THEN NoRealloc(S)
    ELSE ComponentStorage_realloc(S, entity, old_table,
                                  S[old_table].header \ {component}, drop, 0)

(***************************************************************************)
(* The storage on its own: alloc for an entity in no table yet, the two    *)
(* reallocs for any entity and table (the code checks that the table has   *)
(* the entity), and free.                                                  *)
(***************************************************************************)
\* the ids the storage is called with: one per index
StorageEntities == {EntityId_new(index, 1) : index \in EntityIndices}

StorageFrame ==
    UNCHANGED <<component_sets, node, registry, command_buffer, resource_cells, world_access, declared, clears, entities, tables, thr, iter,
                live, freed, owner>>

StorageAlloc(entity, bundle) ==
    /\ \A t \in 1..Len(storage) : ~ComponentTable_contains(storage[t], entity)
    /\ written + Cardinality(bundle) <= MaxValues
    /\ storage' = ComponentStorage_alloc(storage, entity, bundle, written).tables
    /\ Len(storage') <= MaxTables
    /\ written' = written + Cardinality(bundle)
    /\ UNCHANGED dropped
    /\ StorageFrame

StorageReallocWith(entity, old_table, component, drop) ==
    /\ written < MaxValues
    /\ LET r == ComponentStorage_realloc_with(storage, entity, old_table,
                                              component, drop, written)
       IN  /\ r.some
           /\ Len(r.tables) <= MaxTables
           /\ storage' = r.tables
           /\ dropped' = Drop(r.drops)
    /\ written' = written + 1
    /\ StorageFrame

StorageReallocWithout(entity, old_table, component, drop) ==
    /\ LET r == ComponentStorage_realloc_without(storage, entity, old_table,
                                                 component, drop)
       IN  /\ r.some
           /\ Len(r.tables) <= MaxTables
           /\ storage' = r.tables
           /\ dropped' = Drop(r.drops)
    /\ UNCHANGED written
    /\ StorageFrame

StorageFree(entity, table) ==
    /\ table \in 1..Len(storage)
    /\ ComponentTable_contains(storage[table], entity)
    /\ storage' = [storage EXCEPT ![table] = ComponentTable_free(@, entity)]
    /\ dropped' = Drop(ComponentTable_free_drops(storage[table], entity))
    /\ UNCHANGED written
    /\ StorageFrame

NextStorage ==
    \/ \E entity \in StorageEntities, bundle \in SUBSET TypeIds : StorageAlloc(entity, bundle)
    \/ \E entity \in StorageEntities, old_table \in 1..Len(storage), component \in TypeIds,
          drop \in BOOLEAN : StorageReallocWith(entity, old_table, component, drop)
    \/ \E entity \in StorageEntities, old_table \in 1..Len(storage), component \in TypeIds,
          drop \in BOOLEAN : StorageReallocWithout(entity, old_table, component, drop)
    \/ \E entity \in StorageEntities, table \in 1..Len(storage) : StorageFree(entity, table)

SpecStorage == Init /\ [][NextStorage]_vars

(***************************************************************************)
(* One SystemNode: it is created for a system, given run conditions and    *)
(* run, by run_from or by force_run_from_mut, in any order.                *)
(***************************************************************************)
SystemNodeFrame ==
    UNCHANGED <<component_sets, registry, command_buffer, resource_cells, world_access, declared, storage,
                clears, entities, tables, thr, iter, live, freed, written, dropped, owner>>

SystemNodeNew(system) ==
    /\ node' = SystemNode_new(system)
    /\ SystemNodeFrame

SystemNodeInsertCondition(condition) ==
    /\ Len(node.conditions) < MaxConditions
    /\ node' = SystemNode_insert_condition(node, condition)
    /\ SystemNodeFrame

SystemNodeRunFrom(answers) ==
    /\ node' = SystemNode_run_from(node, answers)
    /\ SystemNodeFrame

SystemNodeForceRun ==
    /\ node' = SystemNode_force_run_from_mut(node)
    /\ SystemNodeFrame

NextSystemNode ==
    \/ \E system \in Systems : SystemNodeNew(system)
    \/ \E condition \in ConditionIds : SystemNodeInsertCondition(condition)
    \/ \E answers \in [ConditionIds -> BOOLEAN] : SystemNodeRunFrom(answers)
    \/ SystemNodeForceRun

SpecSystemNode == Init /\ [][NextSystemNode]_vars

(***************************************************************************)
(* Component sets on their own: a few sets are built by insert and remove, *)
(* and the intersection of two of them is stored as one of them.           *)
(***************************************************************************)
ComponentSetFrame ==
    UNCHANGED <<node, registry, command_buffer, resource_cells, world_access, declared,
                storage, clears, entities, tables, thr, iter, live, freed, written,
                dropped, owner>>

ComponentSetInsert(set, component) ==
    /\ component_sets' =
           [sets |-> [component_sets.sets EXCEPT
                         ![set] = ComponentSet_insert(@, component)],
            last |-> [op |-> "insert", out |-> set]]
    /\ ComponentSetFrame

ComponentSetRemove(set, component) ==
    /\ component_sets' =
           [sets |-> [component_sets.sets EXCEPT
                         ![set] = ComponentSet_remove(@, component)],
            last |-> [op |-> "remove", out |-> set]]
    /\ ComponentSetFrame

ComponentSetIntersection(lhs, rhs, out) ==
    /\ component_sets' =
           [sets |-> [component_sets.sets EXCEPT
                         ![out] = ComponentSet_intersection(
                                      component_sets.sets[lhs],
                                      component_sets.sets[rhs])],
            last |-> [op |-> "intersection", out |-> out]]
    /\ ComponentSetFrame

NextComponentSet ==
    \/ \E set \in SetNames, component \in SetComponents :
          ComponentSetInsert(set, component)
    \/ \E set \in SetNames, component \in SetComponents :
          ComponentSetRemove(set, component)
    \/ \E lhs \in SetNames, rhs \in SetNames, out \in SetNames :
          ComponentSetIntersection(lhs, rhs, out)

SpecComponentSet == Init /\ [][NextComponentSet]_vars

(***************************************************************************)
(* The registry on its own: spawn and spawn_iter reserve the table of      *)
(* their bundle type and put their entities into it, insert and remove     *)
(* move an entity of a table to the table of a header one type larger or   *)
(* smaller.                                                                *)
(***************************************************************************)
RegistryFrame ==
    UNCHANGED <<component_sets, node, command_buffer, resource_cells, world_access, declared, storage, clears,
                entities, tables, thr, iter, live, freed, written, dropped, owner>>

RegistrySpawn(B, n) ==
    /\ LET r == Registry_reserve(registry, B)
       IN  /\ Len(r.tables) <= MaxTables
           /\ r.tables[r.last.id].len + n <= MaxRows
           /\ registry' = [r EXCEPT !.tables[r.last.id].len = @ + n]
    /\ RegistryFrame

RegistryRealloc(old_table, component) ==
    /\ old_table \in 1..Len(registry.tables)
    /\ LET header == registry.tables[old_table].header
           r == Registry_realloc(registry, old_table,
                                 IF component \in header THEN header \ {component}
                                 ELSE header \cup {component})
       IN  /\ r.last.id # 0
           /\ Len(r.tables) <= MaxTables
           /\ r.tables[r.last.id].len <= MaxRows
           /\ registry' = r
    /\ RegistryFrame

NextRegistry ==
    \/ \E B \in BundleTypes, n \in 0..MaxRows : RegistrySpawn(B, n)
    \/ \E old_table \in 1..MaxTables, component \in 1..NumRegistryTypes :
          RegistryRealloc(old_table, component)

SpecRegistry == Init /\ [][NextRegistry]_vars

(***************************************************************************)
(* World::spawn_iter and World::despawn over the allocator and the         *)
(* entity-keyed storage.  A call spawns n bundles of one header; count is  *)
(* what the size hint of the caller's iterator announced.                  *)
(***************************************************************************)
\* the loop over the bundles: st is the allocator, the table, the range
\* `allocated` (next..end) and the entities the loop has made so far
RECURSIVE SpawnIter_loop(_, _, _, _, _, _)
SpawnIter_loop(st, id, header, k, n, base) ==
    IF k > n THEN st
    ELSE LET took == st.next < st.end
             index == IF took THEN st.next ELSE st.end
             E1 == IF took THEN st.e ELSE Entities_alloc_end(st.e).e
             entity == EntityId_new(index, E1.slots[index + 1].version)
         IN  SpawnIter_loop(
                 [e       |-> Entities_set(E1, entity, SomeAddr(id, 0)).e,
                  table   |-> TakeBundle(ComponentTable_insert(st.table, entity),
                                         entity, header, header,
                                         base + (k - 1) * Cardinality(header)),
                  next    |-> IF took THEN st.next + 1 ELSE st.next,
                  end     |-> IF took THEN st.end ELSE st.end + 1,
                  created |-> Append(st.created, entity)],
                 id, header, k + 1, n, base)

\* SpawnIter::next over slot(start..end).iter().enumerate(): the index of
\* the id is the position in the slice
SpawnIter_next(slots, start, position) ==
    EntityId_new(position, slots[start + position + 1].version)

\* World::spawn_iter, with the ids the returned SpawnIter yields when it
\* is run to its end
World_spawn_iter(E, S, header, n, count, base) ==
    LET r == ComponentStorage_reserve(S, header)
        a == Entities_alloc_many(Entities_flush(E), count)
        st == SpawnIter_loop([e |-> a.e, table |-> r.tables[r.id], next |-> a.start,
                              end |-> a.end, created |-> <<>>],
                             r.id, header, 1, n, base)
    IN  [e       |-> st.e,
         tables  |-> [r.tables EXCEPT ![r.id] = st.table],
         id      |-> r.id,
         created |-> st.created,
         yielded |-> [i \in 1..(st.end - a.start) |->
                         SpawnIter_next(st.e.slots, a.start, i - 1)]]

WorldSpawnIter(header, n, count) ==
    /\ Running
    /\ Len(Entities_flush(entities).slots) + Max(count, n) <= MaxSlots
    /\ written + n * Cardinality(header) <= MaxValues
    /\ LET r == World_spawn_iter(entities, storage, header, n, count, written)
       IN  /\ Len(r.tables) <= MaxTables
           /\ entities' = r.e
           /\ storage' = r.tables
           /\ live' = live \cup {r.created[k] : k \in 1..Len(r.created)}
    /\ written' = written + n * Cardinality(header)
    /\ UNCHANGED <<component_sets, node, registry, command_buffer, resource_cells, world_access, declared, clears,
                   tables, thr, iter, freed, dropped, owner>>

\* World::despawn: Entities::free, then Components::free in the table the
\* allocator returned
WorldDespawnStored(entity) ==
    /\ Running
    /\ HasSlot(entities, entity)
    /\ SlotOf(entities, entity).version = entity.version
    /\ SlotOf(entities, entity).version < MaxVersion
    /\ LET r == Entities_free(entities, entity)
       IN  /\ entities' = r.e
           /\ IF r.addr.some /\ r.addr.table \in 1..Len(storage)
              THEN /\ storage' = [storage EXCEPT ![r.addr.table] =
                                      ComponentTable_free(@, entity)]
                   /\ dropped' = Drop(ComponentTable_free_drops(
                                          storage[r.addr.table], entity))
              ELSE UNCHANGED <<storage, dropped>>
    /\ live' = live \ {entity}
    /\ freed' = freed \cup {entity}
    /\ UNCHANGED <<component_sets, node, registry, command_buffer, resource_cells, world_access, declared, clears,
                   tables, thr, iter, written, owner>>

NextSpawnIter ==
    \/ \E header \in SUBSET TypeIds, n \in 0..MaxSlots, count \in 0..MaxSlots :
          WorldSpawnIter(header, n, count)
    \/ \E entity \in Handles : WorldDespawnStored(entity)

SpecSpawnIter == Init /\ [][NextSpawnIter]_vars

(***************************************************************************)
(* Properties of the allocator, stated of SpecEntities.                     *)
(***************************************************************************)

\* C4: for every EntityId in circulation whose index has a slot, the slot's
\* version equals the id's version if and only if the id is alive
\* (Entities::contains, "whether the entity is currently alive").
C4_VersionMatchIffAlive ==
    \A id \in Handles :
        HasSlot(entities, id) =>
            ((SlotOf(entities, id).version = id.version)
                <=> Entities_contains(entities, id))

\* C6: every id handed out by alloc or reserve and not freed since is alive:
\* contains(id) holds before and after a flush, and set(id, addr) succeeds.
C6_HandedOutIsAlive ==
    \A id \in live :
        Running =>
            /\ Entities_contains(entities, id)
            /\ Entities_contains(Entities_flush(entities), id)
            /\ \A addr \in AddrChoices : Entities_set(entities, id, addr).ok

\* C7: an id returned by reserve() is distinct from every id that is alive at
\* that time, the ids returned by the other concurrent reserve() calls included.
C7_ReserveDistinct ==
    [][\A t \in Threads :
          (ReserveSub(t) /\ ~entities'.panic) => live' # live]_vars

\* C3: over spawn, despawn and clear, a spawn never returns an EntityId
\* that was issued before (the id of a spawn is the one Entities::alloc
\* returns)
C3_SpawnIdsFresh ==
    [][(Alloc /\ ~entities'.panic)
          => Entities_alloc(entities).id \notin Handles]_vars

\* C5: once an id was despawned it never resolves again: contains is false,
\* free and set fail on it and leave the allocator as it is
C5_StaleNeverResolves ==
    Running =>
        \A e \in freed :
            /\ ~Entities_contains(entities, e)
            /\ Entities_free(entities, e).e = Entities_flush(entities)
            /\ \A addr \in AddrChoices : ~Entities_set(entities, e, addr).ok

\* C24: creating an entity view never reads a missing address: for an id
\* that was reserved and is not flushed yet (it has no slot), EntityRef::new
\* and EntityMut::new return Err(EntityNotFound).
C24_ViewOfReservedIsErr ==
    Running =>
        \A id \in live :
            ~HasSlot(entities, id) => EntityRef_new(entities, id) = "Err"

\* C31: a cursor that is not negative is at most pending.len(); after
\* flush, alloc and free it equals pending.len(); reserve never indexes
\* pending out of bounds
C31_CursorWithinPending ==
    [][/\ (Running /\ ~entities'.panic /\ entities'.cursor >= 0)
              => entities'.cursor <= Len(entities'.pending)
       /\ ((Flush \/ Alloc \/ \E entity \in Handles : Free(entity))
                /\ ~entities'.panic)
              => entities'.cursor = Len(entities'.pending)
       /\ \A t \in Threads : ReserveSub(t) => ~entities'.panic]_vars

\* C32: while no reserve is in progress, Entities::len() is the number of
\* ids handed out and not freed since; once flushed, allocated is the
\* number of ids that are alive
C32_LenCountsHandedOut ==
    (Running /\ Idle) =>
        /\ Entities_len(entities) = Cardinality(live)
        /\ entities.reserved = 0 =>
               entities.allocated
                   = Cardinality({id \in Handles : Entities_contains(entities, id)})

\* C33: for an id whose index has no slot, contains(id) is true exactly
\* when the id was handed out by reserve since the last flush, and false
\* for every index that was never handed out
C33_ContainsReservedWindow ==
    Running =>
        \A index \in 0..MaxSlots, version \in 1..MaxVersion :
            ~HasSlot(entities, EntityId_new(index, version))
                => (Entities_contains(entities, EntityId_new(index, version))
                        <=> EntityId_new(index, version) \in live)

\* C36: Entities::iter yields exactly the ids that are alive and have a
\* slot, in ascending order of index, and at every point of the iteration
\* the length it reports is the number of ids it will still yield
C36_IterExact ==
    Running =>
        /\ {Entities_iter(entities, 0)[k] : k \in 1..Len(Entities_iter(entities, 0))}
               = {id \in Handles : HasSlot(entities, id) /\ Entities_contains(entities, id)}
        /\ \A j, k \in 1..Len(Entities_iter(entities, 0)) :
               j < k => Entities_iter(entities, 0)[j].index
                            < Entities_iter(entities, 0)[k].index
        /\ \A position \in 0..Len(entities.slots) :
               EntitySlots_len(entities, position)
                   = Len(Entities_iter(entities, position))

(***************************************************************************)
(* Properties of the tables and the world, stated of SpecTable and Spec.   *)
(***************************************************************************)
Alive(entity) == Entities_contains(entities, entity)

\* C1: every alive entity has an address (t, r) in its allocator slot and
\* row r of table t holds exactly that entity
C1_AddrMatchesRow ==
    Running =>
        \A e \in Handles : Alive(e) =>
            LET addr == Entities_get(entities, e)
            IN  /\ addr.some
                /\ addr.table < Len(tables)
                /\ Table_entity(tables[addr.table + 1], addr.row) = e

\* C2: no step puts another entity into a row whose entity is still in the
\* table: Table::push never reuses or overwrites an occupied row
C2_PushNeverOverwrites ==
    [][\A t \in TableIds(tables), row \in 0..(MaxRows - 1) :
          LET before == Table_entity(tables[t + 1], row)
              after == Table_entity(tables'[t + 1], row)
          IN  before # NoEntity => after \in {before, NoEntity}]_vars

\* C29: Table::clear drops every live component of the table exactly once
\* and leaves the table with no live rows, so that a later clear, or the drop
\* of the table, drops nothing a second time
C29_ClearDropsOnce ==
    [][TableClear =>
          /\ \A v \in Table_clear_drops(tables[1]) : dropped'[v] = 1
          /\ FilledRows(tables'[1]) = {}
          /\ Table_clear_drops(tables'[1]) = {}]_vars

ValuesOf(entity) == {v \in 1..MaxValues : owner[v] = entity}

\* C8: despawn(e) makes e not contained, leaves every other entity's
\* liveness, address, row and values alone, and drops each value e owned
\* exactly once
C8_DespawnFrame ==
    [][\A e \in Handles :
          Despawn(e, FALSE, FALSE) =>
              /\ ~Entities_contains(entities', e)
              /\ \A o \in Handles \ {e} :
                    /\ Entities_contains(entities', o) = Alive(o)
                    /\ Entities_get(entities', o) = Entities_get(entities, o)
                    /\ Alive(o) =>
                          LET addr == Entities_get(entities, o)
                          IN  Table_entity(tables'[addr.table + 1], addr.row)
                                  = Table_entity(tables[addr.table + 1], addr.row)
                    /\ \A v \in ValuesOf(o) : dropped'[v] = dropped[v]
              /\ \A v \in ValuesOf(e) : dropped[v] = 0 /\ dropped'[v] = 1]_vars

\* the entities a query with the required components should visit
Matching(required) ==
    {e \in Handles :
        /\ Alive(e)
        /\ Entities_get(entities, e).some
        /\ Access_matches(required,
               tables[Entities_get(entities, e).table + 1].components)}

\* C26: Query::get(id) and get_mut(id) are Ok only for an id that is alive
\* and whose table the query matches; a despawned id gets an error, also
\* after its index was reused, and so does an entity of an unmatched table
C26_GetOnlyAliveMatched ==
    Running =>
        \A required \in SUBSET ComponentIds : \A e \in Handles :
            /\ Query_get(tables, entities, required, e) = "Ok"
                   => Alive(e) /\ e \in Matching(required)
            /\ ~Alive(e)
                   => Query_get(tables, entities, required, e) = "EntityNotFound"

\* C9: a finished iteration has visited every matching entity exactly once
\* and no other entity
C9_QueryVisitsExactlyMatching ==
    iter.done =>
        /\ \A e \in Matching(iter.required) :
              Cardinality({i \in 1..Len(iter.yielded) : iter.yielded[i] = e}) = 1
        /\ \A i \in 1..Len(iter.yielded) :
              iter.yielded[i] \in Matching(iter.required)

\* C10: the entities are yielded in ascending table id and, within a
\* table, in ascending row
C10_QueryOrder ==
    iter.done =>
        \A i, j \in 1..Len(iter.yielded) :
            i < j =>
                LET a == Entities_get(entities, iter.yielded[i])
                    b == Entities_get(entities, iter.yielded[j])
                IN  \/ a.table < b.table
                    \/ a.table = b.table /\ a.row < b.row

\* the iterator's reported length is the number of items it has yet to
\* yield, now and after every next until it ends
RECURSIVE QueryIter_len_exact(_, _)
QueryIter_len_exact_after(T, r) ==
    \/ r.item = NoEntity
    \/ QueryIter_len_exact(T, [r.it EXCEPT !.yielded = Append(@, r.item)])

QueryIter_len_exact(T, it) ==
    /\ it.len = Len(QueryIter_collect(T, it).yielded) - Len(it.yielded)
    /\ QueryIter_len_exact_after(T, QueryIter_next(T, it))

\* C38: a query iterator yields exactly as many items as the sum of the
\* lengths of the matched tables, and the length it reports (len and
\* size_hint) is the number of items still to come at every step of an
\* iteration during which the world is not changed.
C38_IterLenExact ==
    [][\A required \in SUBSET ComponentIds :
           QueryIterate(required)
               => /\ Len(iter'.yielded)
                        = Query_len(tables, Query_new(tables, required, 0))
                  /\ iter'.len = 0
                  /\ QueryIter_len_exact(tables, Query_iter(tables, required))]_vars

\* an iteration over more than one matched table that yielded several items
C38_IteratedSeveral ==
    /\ iter.done
    /\ Len(iter.yielded) >= 2
    /\ iter.tables # <<>>

(***************************************************************************)
(* Properties of the access model, stated of SpecAccess.                   *)
(***************************************************************************)
\* the disjointness table of access kinds (symmetric): distinct components,
\* distinct resources, all entities against a resource and a component
\* against a resource are disjoint, nothing else is
Disjoint(lhs, rhs) ==
    \/ lhs.kind = "Component" /\ rhs.kind = "Component" /\ lhs.info # rhs.info
    \/ lhs.kind = "Resource" /\ rhs.kind = "Resource" /\ lhs.info # rhs.info
    \/ lhs.kind = "AllEntities" /\ rhs.kind = "Resource"
    \/ lhs.kind = "Resource" /\ rhs.kind = "AllEntities"
    \/ lhs.kind = "Component" /\ rhs.kind = "Resource"
    \/ lhs.kind = "Resource" /\ rhs.kind = "Component"

Conflict(lhs, rhs) ==
    /\ (lhs.level = "Write" \/ rhs.level = "Write")
    /\ ~Disjoint(lhs, rhs)

\* the WorldAccess built from the first n declared accesses
RECURSIVE Built(_)
Built(n) ==
    IF n = 0 THEN WorldAccess_new
    ELSE WorldAccess_add(Built(n - 1), declared[n].access)

\* C11: the WorldAccess built from a sequence of declared accesses reports
\* an AccessError if and only if two of the declared accesses conflict, that
\* is, one of them is a Write and their kinds are not disjoint.
C11_ErrorIffConflict ==
    WorldAccess_result(world_access).some
        <=> \E i, j \in 1..Len(declared) :
                i < j /\ Conflict(declared[j].access, declared[i].access)

\* C12: a component access and a resource access never conflict: declaring
\* accesses to pairwise distinct components and pairwise distinct resources,
\* at any levels, yields no AccessError.
C12_ComponentResourceDisjoint ==
    (/\ \A i \in 1..Len(declared) :
            declared[i].access.kind \in {"Component", "Resource"}
     /\ \A i, j \in 1..Len(declared) :
            (i # j /\ declared[i].access.kind = declared[j].access.kind)
                => declared[i].access.info # declared[j].access.info)
        => ~WorldAccess_result(world_access).some

\* C13: for an error-free sequence of declared accesses, matches(components)
\* is true exactly when every component some access declares as required is
\* in components; a required declaration stays in force when the component
\* is declared optional as well.
C13_MatchesIffRequired ==
    ~WorldAccess_result(world_access).some
        => \A table_components \in SUBSET Infos :
               WorldAccess_matches(world_access, table_components)
                   <=> \A i \in 1..Len(declared) :
                           (/\ declared[i].access.kind = "Component"
                            /\ declared[i].access.required)
                               => declared[i].access.info \in table_components

\* C14: query data that holds EntityMut next to a component reference of
\* any level, an EntityRef or another EntityMut is rejected with an
\* AccessError.
C14_EntityMutExclusive ==
    \A i, j \in 1..Len(declared) :
        (/\ i # j
         /\ declared[i].data = "EntityMut"
         /\ declared[j].data \in {"&C", "&mut C", "Option<&C>",
                                  "Option<&mut C>", "EntityRef", "EntityMut"})
            => WorldAccess_result(world_access).some

\* C15: once an error is latched, every later add leaves the WorldAccess as
\* it is: result() returns the same first error, and the recorded accesses
\* and the level stay the same.
C15_ErrorLatched ==
    [][WorldAccess_result(world_access).some
           => /\ world_access' = world_access
              /\ WorldAccess_result(world_access') = WorldAccess_result(world_access)
              /\ WorldAccess_accesses(world_access') = WorldAccess_accesses(world_access)
              /\ WorldAccess_level(world_access') = WorldAccess_level(world_access)]_vars

\* an add was made after the error was latched
C15_AddAfterError ==
    /\ Len(declared) >= 3
    /\ Built(Len(declared) - 1).error.some
    /\ world_access = Built(Len(declared))

(***************************************************************************)
(* Properties of spawn, insert and remove, stated of Spec.                 *)
(***************************************************************************)
\* C16: after spawn(bundle) the new entity contains exactly the components
\* of the bundle, and get::<C>() returns the value the bundle wrote for
\* each of them.
C16_SpawnHoldsBundle ==
    [][\A bundle \in SUBSET ComponentIds :
           Spawn(bundle, FALSE)
               => LET id == Entities_alloc(entities).id
                  IN  \A c \in ComponentIds :
                          /\ Entity_contains(tables', entities', id, c) <=> c \in bundle
                          /\ c \in bundle
                                 => Entity_get(tables', entities', id, c)
                                        = written + Rank(c, bundle)]_vars

\* C17: for an alive entity e, insert(e, c) followed by remove::<C>(e):
\* the remove returns exactly c and e no longer contains C.
C17_InsertThenRemove ==
    [][\A entity \in Handles, component \in ComponentIds :
           Insert(entity, component, FALSE)
               => /\ Entity_contains(tables', entities', entity, component)
                  /\ LET r == EntityWorld_remove(tables', entities', entity, component)
                     IN  /\ ~r.asserts
                         /\ r.prev = written + 1
                         /\ ~Entity_contains(r.tables, r.entities, entity, component)]_vars

\* the component set of the table the entity is stored in; an entity
\* without an address is in no table
Entity_components(T, E, entity) ==
    LET addr == Entities_get(E, entity)
    IN  IF addr.some /\ addr.table < Len(T)
        THEN T[addr.table + 1].components ELSE {}

Entity_in_table(T, E, entity) ==
    LET addr == Entities_get(E, entity)
    IN  addr.some /\ addr.table < Len(T)

\* C18: the component set of an entity (the set of the table it is in) is
\* the set of its bundle after spawn, gains exactly the component after an
\* insert and loses exactly the component after a remove, so that after any
\* sequence of inserts and removes it is the bundle's set with the same
\* additions and removals applied.
C18_SetAlgebra ==
    [][/\ \A bundle \in SUBSET ComponentIds :
              Spawn(bundle, FALSE)
                  => LET id == Entities_alloc(entities).id
                     IN  /\ Entity_in_table(tables', entities', id)
                         /\ Entity_components(tables', entities', id) = bundle
       /\ \A entity \in Handles, component \in ComponentIds :
              /\ Insert(entity, component, FALSE)
                     => /\ Entity_in_table(tables', entities', entity)
                        /\ Entity_components(tables', entities', entity)
                               = Entity_components(tables, entities, entity)
                                     \cup {component}
              /\ Remove(entity, component, FALSE)
                     => /\ Entity_in_table(tables', entities', entity)
                        /\ Entity_components(tables', entities', entity)
                               = Entity_components(tables, entities, entity)
                                     \ {component}]_vars

(***************************************************************************)
(* Properties of the entity-keyed storage, stated of SpecStorage.          *)
(***************************************************************************)
\* what a realloc with result r did for the types both headers have: the
\* entity is in the new table with the very value of its old cell, the
\* value was copied once, and no drop function ran on it
MovedIntact(r, entity, old_table) ==
    LET old == storage[old_table]
        new == storage'[r.id]
    IN  \A c \in old.header \cap new.header :
            LET value == ComponentTable_get_ptr_unchecked_mut(old, entity, c)
            IN  /\ ComponentTable_contains(new, entity)
                /\ ComponentTable_get_ptr_unchecked_mut(new, entity, c) = value
                /\ Cardinality({i \in 1..Len(r.copies) : r.copies[i][1] = c}) = 1
                /\ value \notin r.drops
                /\ value \in 1..MaxValues => dropped'[value] = dropped[value]

\* C19: moving an entity between tables keeps the value of every component
\* in old_set \cap new_set, and the moved bytes are neither dropped nor
\* copied twice.
C19_ReallocPreserves ==
    [][\A entity \in StorageEntities, old_table \in 1..MaxTables,
          component \in TypeIds, drop \in BOOLEAN :
           /\ StorageReallocWith(entity, old_table, component, drop)
                  => MovedIntact(
                         ComponentStorage_realloc_with(
                             storage, entity, old_table, component, drop, written),
                         entity, old_table)
           /\ StorageReallocWithout(entity, old_table, component, drop)
                  => MovedIntact(
                         ComponentStorage_realloc_without(
                             storage, entity, old_table, component, drop),
                         entity, old_table)]_vars

\* an entity was moved with two components: its new table holds the values
\* whose copies are still in the cells of a table it has left
C19_MovedTwoComponents ==
    \E old_table, new_table \in 1..Len(storage) :
        \E index \in EntityIndices :
            /\ old_table # new_table
            /\ storage[new_table].entities[index] # NoEntity
            /\ storage[old_table].entities[index] = NoEntity
            /\ Cardinality({c \in storage[old_table].header \cap storage[new_table].header :
                               /\ storage[new_table].columns[c][index] # 0
                               /\ storage[new_table].columns[c][index]
                                      = storage[old_table].columns[c][index]}) >= 2

\* C30: when realloc returns the table of new_set, the entity is a member of
\* that table and of no other table, the table it came from included, also
\* when old_set and new_set have no component in common
C30_ReallocMovesMembership ==
    [][\A entity \in StorageEntities, old_table \in 1..MaxTables,
          component \in TypeIds, drop \in BOOLEAN :
           LET Moved(r) ==
                   /\ ComponentTable_contains(storage'[r.id], entity)
                   /\ ~ComponentTable_contains(storage'[old_table], entity)
                   /\ \A t \in 1..Len(storage') :
                          ComponentTable_contains(storage'[t], entity) => t = r.id
               Single == Cardinality({t \in 1..Len(storage) :
                             ComponentTable_contains(storage[t], entity)}) = 1
           IN  /\ (Single /\ StorageReallocWith(entity, old_table, component, drop))
                      => Moved(ComponentStorage_realloc_with(
                                   storage, entity, old_table, component, drop, written))
               /\ (Single /\ StorageReallocWithout(entity, old_table, component, drop))
                      => Moved(ComponentStorage_realloc_without(
                                   storage, entity, old_table, component, drop))]_vars

(***************************************************************************)
(* Properties of the system node, stated of SpecSystemNode.                *)
(***************************************************************************)
\* C39: SystemNode::run_from executes the body of the wrapped system only
\* if the access the system declares is valid and every run condition
\* answers true; in every other case it returns None and the body is not
\* executed.
C39_RunsOnlyIfValidAndConditionsHold ==
    [][\A answers \in [ConditionIds -> BOOLEAN] :
           SystemNodeRunFrom(answers)
               => IF /\ WorldAccess_is_valid(
                            SystemNode_access(node.inner, WorldAccess_new))
                     /\ \A i \in 1..Len(node.conditions) : answers[node.conditions[i]]
                  THEN node'.last.body <=> node'.last.output = "Some"
                  ELSE ~node'.last.body /\ node'.last.output = "None"]_vars

\* run_from refused a system with a valid access because its second run
\* condition answered false
C39_RefusedByCondition ==
    /\ node.last.op = "run_from"
    /\ node.last.output = "None"
    /\ ~node.last.body
    /\ node.is_valid = "Some(true)"
    /\ node.inner # <<>>
    /\ node.last.asked = 2

(***************************************************************************)
(* Properties of component sets, stated of SpecComponentSet.               *)
(***************************************************************************)
\* C40: ComponentSet intersection is idempotent, commutative and
\* associative under the equality of ComponentSet, and the intersection of
\* two sets contains exactly the components that both of them contain.
C40_IntersectionLaws ==
    \A x \in SetNames, y \in SetNames, z \in SetNames :
        /\ ComponentSet_eq(
               ComponentSet_intersection(component_sets.sets[x], component_sets.sets[x]),
               component_sets.sets[x])
        /\ ComponentSet_eq(
               ComponentSet_intersection(component_sets.sets[x], component_sets.sets[y]),
               ComponentSet_intersection(component_sets.sets[y], component_sets.sets[x]))
        /\ ComponentSet_eq(
               ComponentSet_intersection(
                   ComponentSet_intersection(component_sets.sets[x],
                                             component_sets.sets[y]),
                   component_sets.sets[z]),
               ComponentSet_intersection(
                   component_sets.sets[x],
                   ComponentSet_intersection(component_sets.sets[y],
                                             component_sets.sets[z])))
        /\ \A component \in SetComponents :
               ComponentSet_contains(
                   ComponentSet_intersection(component_sets.sets[x],
                                             component_sets.sets[y]),
                   component)
                   <=> /\ ComponentSet_contains(component_sets.sets[x], component)
                       /\ ComponentSet_contains(component_sets.sets[y], component)

\* the third set was made the intersection of the first two, which have
\* slot vectors of different lengths, share a component and each hold a
\* component the other lacks
C40_IntersectedOverlapping ==
    /\ component_sets.last = [op |-> "intersection", out |-> 3]
    /\ component_sets.sets[3]
           = ComponentSet_intersection(component_sets.sets[1], component_sets.sets[2])
    /\ Len(component_sets.sets[1].inner) # Len(component_sets.sets[2].inner)
    /\ component_sets.sets[3].len >= 1
    /\ component_sets.sets[1].len > component_sets.sets[3].len
    /\ component_sets.sets[2].len > component_sets.sets[3].len

(***************************************************************************)
(* Properties of the table registry, stated of SpecRegistry.               *)
(***************************************************************************)
\* C34: no two tables have the same component set, and a request for the
\* table of a set some table already has, by a bundle type of any order or
\* by a move, returns that table and creates none
C34_OneTablePerSet ==
    [][/\ \A t, u \in 1..Len(registry'.tables) :
              registry'.tables[t].header = registry'.tables[u].header => t = u
       /\ \A B \in BundleTypes, n \in 0..MaxRows :
              (RegistrySpawn(B, n)
                   /\ \E t \in 1..Len(registry.tables) :
                          registry.tables[t].header = Bundle_types(B))
                  => /\ Len(registry'.tables) = Len(registry.tables)
                     /\ registry.tables[registry'.last.id].header = Bundle_types(B)
       /\ \A old_table \in 1..MaxTables, component \in 1..NumRegistryTypes :
              RegistryRealloc(old_table, component)
                  => /\ registry'.tables[registry'.last.id].header
                            = (IF component \in registry.tables[old_table].header
                               THEN registry.tables[old_table].header \ {component}
                               ELSE registry.tables[old_table].header \cup {component})
                     /\ (\E t \in 1..Len(registry.tables) :
                            registry.tables[t].header
                                = registry'.tables[registry'.last.id].header)
                           => Len(registry'.tables) = Len(registry.tables)]_vars

\* a bundle type was given the table that another order of the same two
\* component types, or a move, had created
C34_FoundByTypeSet ==
    /\ registry.last.by = "type_sets"
    /\ Cardinality(registry.tables[registry.last.id].header) = 2

(***************************************************************************)
(* Properties of the bulk spawn, stated of SpecSpawnIter.                  *)
(***************************************************************************)
\* C23: run over an iterator of n bundles that announces its length,
\* spawn_iter yields exactly the ids it created, with ascending indices in
\* the order of the input; the k-th id is alive, is in the table of the
\* bundle type and holds the components of the k-th bundle; the ids differ
\* from each other and from every id alive before the call
C23_SpawnIterYieldsCreated ==
    [][\A header \in SUBSET TypeIds, n \in 0..MaxSlots :
           LET Yields(r) ==
                   /\ r.yielded = r.created
                   /\ Len(r.yielded) = n
                   /\ \A j, k \in 1..Len(r.yielded) :
                          j < k => r.yielded[j].index < r.yielded[k].index
                   /\ \A k \in 1..Len(r.yielded) :
                          /\ Entities_contains(entities', r.yielded[k])
                          /\ ComponentTable_contains(storage'[r.id], r.yielded[k])
                          /\ storage'[r.id].entities[r.yielded[k].index] = r.yielded[k]
                          /\ \A c \in header :
                                 storage'[r.id].columns[c][r.yielded[k].index]
                                     = written + (k - 1) * Cardinality(header)
                                           + Rank(c, header)
                          /\ ~Entities_contains(entities, r.yielded[k])
           IN  WorldSpawnIter(header, n, n)
                   => Yields(World_spawn_iter(entities, storage, header, n, n, written))]_vars

\* C35: spawn_iter makes one alive entity per bundle of its input, whatever
\* the size hint announced: the world's len grows by the number of bundles,
\* and every slot the call added that is alive has an address in a table
\* that holds the entity
C35_SpawnIterOnePerBundle ==
    [][\A header \in SUBSET TypeIds, n \in 0..MaxSlots, count \in 0..MaxSlots :
           WorldSpawnIter(header, n, count)
               => /\ Entities_len(entities') = Entities_len(entities) + n
                  /\ \A index \in Len(Entities_flush(entities).slots)
                                     ..(Len(entities'.slots) - 1) :
                         entities'.slots[index + 1].alive
                             => /\ entities'.slots[index + 1].addr.some
                                /\ ComponentTable_contains(
                                       storage'[entities'.slots[index + 1].addr.table],
                                       EntityId_new(index,
                                           entities'.slots[index + 1].version))]_vars

(***************************************************************************)
(* Properties of the hooks, stated of SpecHooks.                           *)
(***************************************************************************)
\* C20: a structural operation works on the address the entity has when
\* its hook returns, not on one read before the hook ran.  insert runs
\* after_insert as its last step and remove reads the address after
\* before_remove; despawn reads it before its hooks, so the property is
\* stated of despawn: the row it frees is the row Entities gives for the
\* entity once the hooks have returned.
HookAddrReread(h, addr, entity) ==
    /\ Table_entity(h.tables[addr.table + 1], addr.row) = entity
           => Table_entity(tables'[addr.table + 1], addr.row) = NoEntity
    /\ \A t \in TableIds(h.tables), row \in 0..(MaxRows - 1) :
           <<t, row>> # <<addr.table, addr.row>>
               => Table_entity(tables'[t + 1], row)
                      = Table_entity(h.tables[t + 1], row)

C25_GetOwnOrNotFound ==
    Running =>
        \A entity \in live, component \in ComponentIds :
            (Entities_contains(entities, entity) /\ Entities_get(entities, entity).some)
                => IF Entity_contains(tables, entities, entity, component)
                   THEN /\ Entity_get(tables, entities, entity, component)
                               = EntityMut_get_mut(tables, entities, entity, component)
                        /\ Entity_get(tables, entities, entity, component) > 0
                        /\ owner[Entity_get(tables, entities, entity, component)]
                               = entity
                   ELSE /\ Entity_get(tables, entities, entity, component) = 0
                        /\ EntityMut_get_mut(tables, entities, entity, component) = 0

C28_ApplyRunsAllInOrder ==
    [][CommandsApply
           => /\ command_buffer'.applied = command_buffer.pushed
              /\ command_buffer'.buffer.commands = <<>>]_vars

\* the number of times a command occurs in a sequence of commands
Occurrences(commands, command) ==
    Cardinality({i \in 1..Len(commands) : commands[i] = command})

\* C37: every command pushed to a Commands buffer is consumed exactly once:
\* when the buffer is applied or dropped, for_each hands each command that
\* was pushed (and not yet consumed) to the apply or drop function exactly
\* once, and none is left in the buffer to be consumed again.
C37_ConsumedExactlyOnce ==
    [][(CommandsApply \/ CommandsDrop)
           => /\ \A type \in CommandTypes, value \in Captured :
                    Occurrences(Commands_scan(command_buffer.buffer,
                                              command_buffer.buffer.commands, 0),
                                Command(type, value))
                        = Occurrences(command_buffer.pushed, Command(type, value))
              /\ command_buffer'.buffer.commands = <<>>]_vars

\* C22: after_insert is called for a component added to an entity that did
\* not contain it, by insert or by spawn: when a spawn writes its bundle
\* and drains the queue, the after_insert hook of every component of the
\* bundle is called exactly once for the spawned entity (and only after
\* all the bundle's writes, which precede the drain).
C22_AfterInsertOnSpawn ==
    [][\A bundle \in SUBSET (CommandTypes \ {0}), entity \in Captured :
           SpawnWrite(bundle, entity)
               => \A c \in bundle :
                      Cardinality({i \in 1..Len(command_buffer'.applied) :
                                      command_buffer'.applied[i] = Command(c, entity)})
                          = 1]_vars

(***************************************************************************)
(* Properties of the resource borrows, stated of SpecResources.            *)
(***************************************************************************)
\* C27: a mutable borrow of R is granted only while no other borrow of R
\* is outstanding, a shared borrow only while no mutable borrow of R is;
\* a request refused on an inserted resource returns AlreadyBorrowed,
\* grants nothing and leaves the guards already held as they are.
C27_BorrowsChecked ==
    [][\A r \in ResourceIds, mutable \in BOOLEAN :
           ResourcesGet(r, mutable)
               => LET old == resource_cells.cells[r]
                      new == resource_cells'.cells[r]
                  IN  IF resource_cells'.outcome.ok
                      THEN /\ old.muts = 0
                           /\ mutable => old.refs = 0
                           /\ new.muts = old.muts + (IF mutable THEN 1 ELSE 0)
                           /\ new.refs = old.refs + (IF mutable THEN 0 ELSE 1)
                      ELSE /\ new.refs = old.refs /\ new.muts = old.muts
                           /\ old.some => resource_cells'.outcome.error
                                              = "AlreadyBorrowed"
                           /\ \A x \in ResourceIds \ {r} :
                                  resource_cells'.cells[x]
                                      = resource_cells.cells[x]]_vars

\* a ResMut was refused while two Res of the resource are held, which
\* are still held
C27_RefusedWhileShared ==
    /\ resource_cells.outcome.mutable
    /\ ~resource_cells.outcome.ok
    /\ resource_cells.outcome.error = "AlreadyBorrowed"
    /\ resource_cells.cells[1].refs = 2
    /\ resource_cells.outcome.resource = 1

====
